---- MODULE Spec2Model ----
(***************************************************************************)
(* Model of the order manager of src/legacy/order_management.py            *)
(* (OrderValidator.validate_order, OrderManager.submit_order and its       *)
(* stop-loss / take-profit children, OrderManager.cancel_order and its     *)
(* cascade), run as asyncio coroutines on one event loop.                  *)
(* Further down: PositionSizer.calculate_position_size of the same file,   *)
(* the ring buffer of src/legacy/websocket_manager.py, the event history   *)
(* and the subscribers of src/legacy/events.py, the stream managers of     *)
(* src/legacy/websocket_manager.py and src/backend/app/core/binance_ws.py, *)
(* the portfolio of src/portfolio.py and the trading service of            *)
(* src/legacy/trading_service.py, each with a specification of its own.    *)
(*                                                                         *)
(* Scheduling.  A coroutine keeps the event loop until it awaits something *)
(* that really suspends.  With Config.TRADING_MODE == "testnet" the two    *)
(* exchange round trips are `await asyncio.sleep(0.1)`, so other tasks run *)
(* while a submit or a cancel waits.  In any other mode the exchange calls *)
(* are plain synchronous calls, nothing suspends, and a handler runs from  *)
(* its first to its last line without interleaving.  The actions below cut *)
(* every handler at its exchange round trips; `running` names the          *)
(* coroutine that holds the event loop across such a cut (live mode only). *)
(*                                                                         *)
(* Numbers.  Prices, quantities and the balance are integers; a price of 0 *)
(* stands for None (Python treats both as false in `price or current`).    *)
(* max_position_percentage is the rational PctNum / PctDen.                *)
(***************************************************************************)
EXTENDS Integers, Sequences, FiniteSets, TLC

(***************************************************************************)
(* Bounds of the model.                                                    *)
(***************************************************************************)
\* number of submit_order and cancel_order calls made by callers in one run
MaxCalls == 3
\* number of records appended to a ring buffer in one run
MaxAppends == 5
\* number of events published on the event bus in one run
MaxPublishes == 5
\* number of subscribe and subscribe_async calls in one run
MaxSubscribes == 2
\* number of publish calls made from outside the handlers in one run
MaxDispatches == 2
\* number of _maintain_connection tasks created in one run
MaxStreamTasks == 2

(***************************************************************************)
(* Program constants and enumerations.                                     *)
(***************************************************************************)
PENDING == "PENDING"
SUBMITTED == "SUBMITTED"
PARTIALLY_FILLED == "PARTIALLY_FILLED"
FILLED == "FILLED"
CANCELLED == "CANCELLED"
REJECTED == "REJECTED"
EXPIRED == "EXPIRED"

OrderStatus == {PENDING, SUBMITTED, PARTIALLY_FILLED, FILLED, CANCELLED, REJECTED, EXPIRED}
\* the list tested by validate_order, cancel_order and get_active_orders
ActiveStatuses == {PENDING, SUBMITTED, PARTIALLY_FILLED}
TerminalStatuses == {FILLED, CANCELLED, REJECTED, EXPIRED}

OrderSide == {"BUY", "SELL"}

\* RiskParameters defaults: max_position_size, max_position_percentage
max_position_size == 1000
PctNum == 1
PctDen == 10

\* values of max_orders_per_symbol the manager is configured with through
\* update_risk_parameters: room for one order, or for one order and its
\* two children
MaxOrdersChoices == {1, 3}
\* OrderManager.__init__'s default initial_balance, and the values of
\* initial_balance the risk checks are run with
initial_balance == 10000
Balances == {5000, 20000}
TradingModes == {"testnet", "live"}

Symbols == {"BTCUSDT"}
NoPrice == 0
\* request prices, stop-loss prices, take-profit prices, quantities
Prices == {NoPrice, 50}
StopPrices == {NoPrice, 30, 50, 70}
TargetPrices == {NoPrice, 70}
Quantities == {1, 14, 28}
\* what get_symbol_ticker answers: a price, or it raises
TickerError == -1
TickerAnswers == {50, TickerError}

\* the calls of each kind are numbered; a run of MaxCalls calls holds at
\* least one call of the other kind
Reqs == 1 .. (MaxCalls - 1)
Cancels == 1 .. (MaxCalls - 1)
Kinds == {"P", "SL", "TP"}
OrderIds == Reqs \X Kinds
NoOrder == <<0, "P">>
P(r) == <<r, "P">>
SL(r) == <<r, "SL">>
TP(r) == <<r, "TP">>

NoTask == <<"none", 0>>

VARIABLES
    mode,                      \* Config.TRADING_MODE
    account_balance,           \* OrderManager.account_balance
    max_orders_per_symbol,     \* OrderManager.risk_params.max_orders_per_symbol
    daily_loss_limit_reached,  \* OrderManager.daily_loss_limit_reached
    orders,                    \* OrderManager.orders: order id -> Order
    submit,                    \* one submit_order coroutine per top-level request
    cancel,                    \* one cancel_order coroutine per top-level cancel
    placed,                    \* order ids handed to the exchange for placement
    place_failed,              \* order ids whose placement the exchange refused
    cancel_calls,              \* number of cancellations sent to the exchange
    running,                   \* coroutine holding the event loop, or NoTask
    published,                 \* system events the manager published, with their order
    sizing,                    \* PositionSizer: the last calculate_position_size call
    maxsize,                   \* CircularBuffer.maxsize
    buffer,                    \* CircularBuffer.buffer, oldest record first
    appended,                  \* every record appended so far, in order
    symbol_stats,              \* MarketDataBuffer.symbol_stats of the symbol
    reader_list,               \* what a reader got from get_recent / get_all
    reader_stats,              \* what a reader got from get_symbol_stats
    max_history,               \* EventBus._max_history
    event_history,             \* EventBus._event_history, oldest event first
    all_events,                \* every event published so far, in order
    history_result,            \* the last get_event_history call and its answer
    subscribers,               \* EventBus._subscribers: event type -> weak references
    async_subscribers,         \* EventBus._async_subscribers, likewise
    collected,                 \* handlers the garbage collector has reclaimed
    deliveries,                \* every <<handler, event>> invocation so far, in order
    inside_handler,            \* events published from inside a handler
    dispatch_tasks,            \* the _notify_async_subscribers tasks, in creation order
    subscribe_calls,           \* number of subscribe and subscribe_async calls so far
    manager_class,             \* "legacy": WebSocketStreamManager, "backend": BinanceWebSocketManager
    is_running,                \* the manager's is_running
    max_reconnect_attempts,    \* max_reconnect_attempts (legacy), max_reconnects (backend)
    connections,               \* the manager's connections: stream -> task owning the websocket
    subscribed_symbols,        \* WebSocketStreamManager.subscribed_symbols
    subscriptions,             \* BinanceWebSocketManager.subscriptions, as <<symbol, stream type>>
    tasks,                     \* BinanceWebSocketManager.tasks: stream -> task
    stream_tasks,              \* every _maintain_connection task created, in creation order
    stream_events,             \* <<event type, stream>> of the events the manager passed on
    stopped,                   \* stop() has returned and the manager was not started since
    unsubscribed,              \* symbols whose unsubscribe returned, not subscribed since
    is_initialized,            \* TradingService.is_initialized
    is_monitoring,             \* TradingService.is_monitoring
    current_balance,           \* Portfolio.current_balance
    positions,                 \* Portfolio.positions, in the order they were added
    trade_history,             \* Portfolio.trade_history, oldest record first
    daily_loss,                \* RiskManager.daily_loss
    market,                    \* the exchange: symbol -> last traded price
    monitor_loops,             \* every start_monitoring coroutine created, in creation order
    exit_submissions           \* per position: closes a monitor cycle asked of the portfolio for it

omVars == <<mode, account_balance, max_orders_per_symbol, daily_loss_limit_reached,
            orders, submit, cancel, placed, place_failed, cancel_calls, running, published>>

sizerVars == <<sizing>>

bufVars == <<maxsize, buffer, appended, symbol_stats, reader_list, reader_stats>>

\* the variables the order manager's handlers do not touch
busVars == <<max_history, event_history, all_events, history_result>>

dispVars == <<subscribers, async_subscribers, collected, deliveries, inside_handler,
              dispatch_tasks, subscribe_calls>>

wsVars == <<manager_class, is_running, max_reconnect_attempts, connections,
            subscribed_symbols, subscriptions, tasks, stream_tasks, stream_events,
            stopped, unsubscribed>>

tsVars == <<is_initialized, is_monitoring, current_balance, positions, trade_history,
            daily_loss, market, monitor_loops, exit_submissions>>

otherVars == <<sizerVars, bufVars, busVars, dispVars, wsVars, tsVars>>

vars == <<omVars, otherVars>>

(***************************************************************************)
(* Requests, orders and results.                                           *)
(***************************************************************************)
\* OrderRequest; order_type follows the price (a priced request is a LIMIT
\* order, an unpriced one a MARKET order)
OrderRequest(symbol, side, order_type, quantity, price, stop_price, parent_order_id, stop_loss_price, take_profit_price) ==
    [symbol |-> symbol, side |-> side, order_type |-> order_type,
     quantity |-> quantity, price |-> price, stop_price |-> stop_price,
     parent_order_id |-> parent_order_id,
     stop_loss_price |-> stop_loss_price, take_profit_price |-> take_profit_price]

NoRequest == OrderRequest("", "BUY", "MARKET", 0, NoPrice, NoPrice, NoOrder, NoPrice, NoPrice)

\* the requests a caller passes to submit_order: plain orders of every
\* size, and orders of one unit with a stop-loss, with or without a target
AllRequests ==
    { OrderRequest(s, sd, IF p = NoPrice THEN "MARKET" ELSE "LIMIT", q, p, NoPrice,
                   NoOrder, sl, tp) :
        s \in Symbols, sd \in OrderSide, q \in Quantities, p \in Prices,
        sl \in StopPrices, tp \in TargetPrices }

TopRequests ==
    { req \in AllRequests :
        \/ req.stop_loss_price = NoPrice /\ req.take_profit_price = NoPrice
        \/ req.stop_loss_price # NoPrice /\ req.quantity = 1 }

\* faulty variant: remaining_quantity keeps the default of the dataclass
NewOrderDefaultRemaining(id, req) ==
    [order_id |-> id, symbol |-> req.symbol, side |-> req.side,
     order_type |-> req.order_type, status |-> PENDING,
     quantity |-> req.quantity, filled_quantity |-> 0,
     remaining_quantity |-> 0,
     price |-> req.price, stop_price |-> req.stop_price,
     parent_order_id |-> req.parent_order_id, child_orders |-> << >>,
     stop_loss_order_id |-> NoOrder, take_profit_order_id |-> NoOrder]

\* Order(...) as constructed by submit_order; __post_init__ sets
\* remaining_quantity = quantity - filled_quantity
NewOrder(id, req) ==
    [order_id |-> id, symbol |-> req.symbol, side |-> req.side,
     order_type |-> req.order_type, status |-> PENDING,
     quantity |-> req.quantity, filled_quantity |-> 0,
     remaining_quantity |-> req.quantity - 0,
     price |-> req.price, stop_price |-> req.stop_price,
     parent_order_id |-> req.parent_order_id, child_orders |-> << >>,
     stop_loss_order_id |-> NoOrder, take_profit_order_id |-> NoOrder]

Result(success, message) == [success |-> success, message |-> message]
NoResult == Result(FALSE, "none")

OppositeSide(side) == IF side = "BUY" THEN "SELL" ELSE "BUY"

\* the active orders of one symbol in an order table
SymbolOrders(ords, symbol) ==
    { id \in DOMAIN ords : ords[id].symbol = symbol /\ ords[id].status \in ActiveStatuses }

(***************************************************************************)
(* OrderValidator.validate_order: the errors, in the order the code        *)
(* appends them.  position_value / account_balance > max_position_         *)
(* percentage is compared exactly, as position_value * PctDen >            *)
(* account_balance * PctNum.                                               *)
(***************************************************************************)
PositionValue(req, current_price) ==
    req.quantity * (IF req.price # NoPrice THEN req.price ELSE current_price)

MaxOrdersError(req, ords, maxo) ==
    IF Cardinality(SymbolOrders(ords, req.symbol)) >= maxo THEN <<"max_orders">> ELSE << >>

\* faulty variant: the size limit is tested on the request's price alone
PositionSizeErrorPriceOnly(req, current_price) ==
    IF req.quantity * req.price > max_position_size THEN <<"position_size">> ELSE << >>

PositionSizeError(req, current_price) ==
    IF PositionValue(req, current_price) > max_position_size
    THEN <<"position_size">> ELSE << >>

PositionPercentageError(req, balance, current_price) ==
    IF PositionValue(req, current_price) * PctDen > balance * PctNum
    THEN <<"position_percentage">> ELSE << >>

StopLossError(req) ==
    IF req.stop_loss_price # NoPrice /\ req.price # NoPrice
    THEN IF req.side = "BUY"
         THEN IF req.stop_loss_price >= req.price THEN <<"stop_loss_buy">> ELSE << >>
         ELSE IF req.stop_loss_price <= req.price THEN <<"stop_loss_sell">> ELSE << >>
    ELSE << >>

validate_order(req, ords, balance, maxo, current_price) ==
    LET errors == MaxOrdersError(req, ords, maxo)
                  \o PositionSizeError(req, current_price)
                  \o PositionPercentageError(req, balance, current_price)
                  \o StopLossError(req)
    IN [is_valid |-> errors = << >>, errors |-> errors]

(***************************************************************************)
(* submit_order up to its exchange round trip (lines 346-398): price       *)
(* lookup, validation, circuit breaker, Order in PENDING added to the      *)
(* table, order handed to the exchange.  Anything raised on the way is     *)
(* caught by the handler's except clause and becomes an error result.      *)
(* The answer holds the new table and set of placed ids.                   *)
(***************************************************************************)
Refused(ords, plc, message) ==
    [accepted |-> FALSE, orders |-> ords, placed |-> plc, result |-> Result(FALSE, message)]

\* faulty variant: the circuit breaker is not consulted
SubmitPrefixNoBreaker(ords, plc, id, req, tick, balance, maxo, tripped) ==
    IF tick = TickerError THEN Refused(ords, plc, "error")
    ELSE IF ~validate_order(req, ords, balance, maxo, tick).is_valid
         THEN Refused(ords, plc, "validation")
    ELSE [accepted |-> TRUE,
          orders |-> (id :> NewOrder(id, req)) @@ ords,
          placed |-> plc \cup {id},
          result |-> NoResult]

SubmitPrefix(ords, plc, id, req, tick, balance, maxo, tripped) ==
    IF tick = TickerError THEN Refused(ords, plc, "error")
    ELSE IF ~validate_order(req, ords, balance, maxo, tick).is_valid
         THEN Refused(ords, plc, "validation")
    ELSE IF tripped THEN Refused(ords, plc, "daily_loss")
    ELSE [accepted |-> TRUE,
          orders |-> (id :> NewOrder(id, req)) @@ ords,
          placed |-> plc \cup {id},
          result |-> NoResult]

\* faulty variant: the stop-loss child is given the side of its parent
StopLossRequestSameSide(parent, stop_loss_price) ==
    OrderRequest(parent.symbol, parent.side, "STOP_LOSS", parent.quantity,
                 NoPrice, stop_loss_price, parent.order_id, NoPrice, NoPrice)

\* the requests built by _submit_stop_loss_order and _submit_take_profit_order
StopLossRequest(parent, stop_loss_price) ==
    OrderRequest(parent.symbol, OppositeSide(parent.side), "STOP_LOSS", parent.quantity,
                 NoPrice, stop_loss_price, parent.order_id, NoPrice, NoPrice)

TakeProfitRequest(parent, take_profit_price) ==
    OrderRequest(parent.symbol, OppositeSide(parent.side), "TAKE_PROFIT", parent.quantity,
                 take_profit_price, NoPrice, parent.order_id, NoPrice, NoPrice)

SetStatus(ords, id, status) == [ords EXCEPT ![id].status = status]

\* event_publisher.publish_system_event(system_action, message) of lines
\* 414-417 and 576-579; the event is kept with the order the handler that
\* published it was working on
Publish(pub, system_action, id) == pub \cup {<<system_action, id>>}

\* lines 413-417, reached by a submit_order whose order was acknowledged and
\* whose children are through
PublishSubmitted(pub, id, pc) ==
    IF pc = "done" THEN Publish(pub, "order_submitted", id) ELSE pub

\* lines 576-579, reached by a cancel_order whose loop over the children ended
PublishCancelled(pub, id, next) ==
    IF next = 0 THEN Publish(pub, "order_cancelled", id) ELSE pub

\* a child's submit_order returned success: the parent records it
RecordStopLoss(ords, parent, child) ==
    [ords EXCEPT ![parent].stop_loss_order_id = child,
                 ![parent].child_orders = Append(@, child)]

RecordTakeProfit(ords, parent, child) ==
    [ords EXCEPT ![parent].take_profit_order_id = child,
                 ![parent].child_orders = Append(@, child)]

(***************************************************************************)
(* Coroutines.                                                             *)
(*   submit[r]: pc "idle" -> "exch" (parent at the exchange) -> "sl_exch"  *)
(*     (stop-loss child at the exchange) -> "tp_exch" (take-profit child   *)
(*     at the exchange) -> "done".  current_price is what the price lookup *)
(*     of the call answered.  submit[r] is the r-th call made, cancel[c]   *)
(*     the c-th.                                                           *)
(*   cancel[c]: pc "idle" -> "exch" (order at the exchange) ->             *)
(*     "child_exch" (child number idx of child_orders at the exchange) ->  *)
(*     "done".  submit_phase is where the submit_order call of a parent    *)
(*     order stood when cancel_order was called for it, exch_failures      *)
(*     counts the cancellations the exchange refused during the call.      *)
(***************************************************************************)
SubmitTask(r) == <<"submit", r>>
CancelTask(c) == <<"cancel", c>>

IdleSubmit == [pc |-> "idle", req |-> NoRequest, current_price |-> NoPrice, result |-> NoResult]
IdleCancel == [pc |-> "idle", order_id |-> NoOrder, idx |-> 0, submit_phase |-> "other",
               exch_failures |-> 0, result |-> NoResult]

\* no calculate_position_size call was made
NoSizing ==
    [outcome |-> "none", entry_price |-> 0, stop_loss_price |-> 0, account_balance |-> 0,
     risk_percentage |-> <<0, 1>>, stop_loss_percentage |-> <<0, 1>>,
     optimal_quantity |-> <<0, 1>>, max_quantity_by_risk |-> <<0, 1>>,
     recommended_quantity |-> <<0, 1>>]

\* MarketDataBuffer.symbol_stats default (lines 57-66): the fields add_tick
\* counts and overwrites
DefaultStats == [last_price |-> 0, tick_count |-> 0]

\* the reader holds nothing yet
NoList == [kind |-> "none", count |-> 0, alias |-> FALSE, items |-> << >>, at_call |-> << >>]
NoStats == [kind |-> "none", alias |-> FALSE, value |-> DefaultStats]

\* an empty ring buffer of the given capacity, no reader
BufferIdle(capacities) ==
    /\ maxsize \in capacities
    /\ buffer = << >>
    /\ appended = << >>
    /\ symbol_stats = DefaultStats
    /\ reader_list = NoList
    /\ reader_stats = NoStats

EventTypes == {"market_data", "system_event"}

\* get_event_history was not called
NoEventType == "None"
NoHistory == [kind |-> "none", event_type |-> NoEventType, limit |-> 0,
              events |-> << >>, at_call |-> << >>]

\* an event bus with an empty history
BusIdle(bounds) ==
    /\ max_history \in bounds
    /\ event_history = << >>
    /\ all_events = << >>
    /\ history_result = NoHistory

\* nobody has subscribed, nothing was delivered
DispatchIdle ==
    /\ subscribers = [event_type \in EventTypes |-> << >>]
    /\ async_subscribers = [event_type \in EventTypes |-> << >>]
    /\ collected = {}
    /\ deliveries = << >>
    /\ inside_handler = {}
    /\ dispatch_tasks = << >>
    /\ subscribe_calls = 0

\* the two stream managers of the repository
ManagerClasses == {"legacy", "backend"}

\* symbols a caller subscribes, one of them contained in the other's name,
\* and the stream type the model runs (subscribe_ticker of the backend,
\* subscribe_symbol(symbol, ['ticker']) of the legacy manager)
StreamSymbols == {"BTCUSDT", "WBTCUSDT"}
StreamTypes == {"ticker"}
NoStreamType == "None"

\* stream_name = f"{symbol.lower()}@ticker", kept as a pair
Streams == StreamSymbols \X StreamTypes

NoStreamTask == 0

\* a manager just constructed
StreamsIdle ==
    /\ manager_class = "legacy"
    /\ is_running = FALSE
    /\ max_reconnect_attempts = 2
    /\ connections = [stream \in Streams |-> NoStreamTask]
    /\ subscribed_symbols = {}
    /\ subscriptions = {}
    /\ tasks = [stream \in Streams |-> NoStreamTask]
    /\ stream_tasks = << >>
    /\ stream_events = {}
    /\ stopped = FALSE
    /\ unsubscribed = {}

\* symbols the trading service is asked to trade
TradeSymbols == {"BTCUSDT", "ETHUSDT"}

\* prices the exchange quotes for them
TickerPrices == {99, 101}

\* a trading service just constructed, with its portfolio and risk manager;
\* numbers that the code keeps as floats are fractions <<numerator, denominator>>
TradingIdle ==
    /\ is_initialized = FALSE
    /\ is_monitoring = FALSE
    /\ current_balance = <<initial_balance, 1>>
    /\ positions = << >>
    /\ trade_history = << >>
    /\ daily_loss = <<0, 1>>
    /\ market = [symbol \in TradeSymbols |-> 101]
    /\ monitor_loops = << >>
    /\ exit_submissions = << >>

\* the parts of the program a specification of the order manager leaves alone
OthersIdle ==
    sizing = NoSizing /\ BufferIdle({1}) /\ BusIdle({1}) /\ DispatchIdle /\ StreamsIdle /\ TradingIdle

InitWith(balances) ==
    /\ OthersIdle
    /\ mode \in TradingModes
    /\ account_balance \in balances
    /\ max_orders_per_symbol \in MaxOrdersChoices
    /\ daily_loss_limit_reached = FALSE
    /\ orders = << >>
    /\ submit = [r \in Reqs |-> IdleSubmit]
    /\ cancel = [c \in Cancels |-> IdleCancel]
    /\ placed = {}
    /\ place_failed = {}
    /\ cancel_calls = 0
    /\ running = NoTask
    /\ published = {}

Init == InitWith({initial_balance})

\* calls made so far
Calls ==
    Cardinality({r \in Reqs : submit[r].pc # "idle"})
    + Cardinality({c \in Cancels : cancel[c].pc # "idle"})

\* the event loop is free for the task, or the task holds it
CanRun(task) == running = NoTask \/ running = task

\* a round trip suspends the coroutine in testnet mode only
Holds(task, pc) == IF mode = "testnet" \/ pc = "done" THEN NoTask ELSE task

\* answers of the exchange: the simulated round trip always succeeds
ExchangeAnswers == IF mode = "testnet" THEN {TRUE} ELSE BOOLEAN

(***************************************************************************)
(* submit_order after the parent is SUBMITTED (lines 406-430): the         *)
(* stop-loss child, then the take-profit child, each through submit_order  *)
(* itself; a child that is refused before its round trip is skipped.       *)
(***************************************************************************)
Stage(pc, ords, plc) == [pc |-> pc, orders |-> ords, placed |-> plc]

TakeProfitStage(ords, plc, r, req, tick, balance, maxo, tripped) ==
    IF req.take_profit_price # NoPrice
    THEN LET s == SubmitPrefix(ords, plc, TP(r),
                               TakeProfitRequest(ords[P(r)], req.take_profit_price),
                               tick, balance, maxo, tripped)
         IN IF s.accepted THEN Stage("tp_exch", s.orders, s.placed)
                          ELSE Stage("done", ords, plc)
    ELSE Stage("done", ords, plc)

StopLossStage(ords, plc, r, req, tickSL, tickTP, balance, maxo, tripped) ==
    IF req.stop_loss_price # NoPrice
    THEN LET s == SubmitPrefix(ords, plc, SL(r),
                               StopLossRequest(ords[P(r)], req.stop_loss_price),
                               tickSL, balance, maxo, tripped)
         IN IF s.accepted THEN Stage("sl_exch", s.orders, s.placed)
                          ELSE TakeProfitStage(ords, plc, r, req, tickTP, balance, maxo, tripped)
    ELSE TakeProfitStage(ords, plc, r, req, tickTP, balance, maxo, tripped)

\* faulty variant: the exchange answer is not looked at
AckStatusAlwaysSubmitted(ok) == SUBMITTED

\* the status the exchange answer gives an order (lines 400-422)
AckStatus(ok) == IF ok THEN SUBMITTED ELSE REJECTED

Finished(r, pc) ==
    IF pc = "done" THEN Result(TRUE, "submitted") ELSE submit[r].result

(***************************************************************************)
(* Actions of submit_order.                                                *)
(***************************************************************************)
\* submit_order(req) is called: lines 346-398
SubmitOrder(r, req, tick) ==
    /\ submit[r].pc = "idle"
    /\ UNCHANGED otherVars
    /\ r > 1 => submit[r - 1].pc # "idle"
    /\ Calls < MaxCalls
    /\ CanRun(SubmitTask(r))
    /\ LET s == SubmitPrefix(orders, placed, P(r), req, tick, account_balance,
                             max_orders_per_symbol, daily_loss_limit_reached)
           pc == IF s.accepted THEN "exch" ELSE "done"
       IN /\ orders' = s.orders
          /\ placed' = s.placed
          /\ submit' = [submit EXCEPT ![r] = [pc |-> pc, req |-> req,
                                              current_price |-> tick,
                                              result |-> s.result]]
          /\ running' = Holds(SubmitTask(r), pc)
    /\ UNCHANGED <<mode, account_balance, max_orders_per_symbol,
                   daily_loss_limit_reached, cancel, place_failed, cancel_calls, published>>

\* the exchange answers for the parent: lines 400-411 or 420-438
ExchangeAck(r, ok, tickSL, tickTP) ==
    /\ submit[r].pc = "exch"
    /\ UNCHANGED otherVars
    /\ CanRun(SubmitTask(r))
    /\ IF ok
       THEN LET st == StopLossStage(SetStatus(orders, P(r), AckStatus(ok)), placed, r,
                                    submit[r].req, tickSL, tickTP, account_balance,
                                    max_orders_per_symbol, daily_loss_limit_reached)
            IN /\ orders' = st.orders
               /\ placed' = st.placed
               /\ submit' = [submit EXCEPT ![r].pc = st.pc, ![r].result = Finished(r, st.pc)]
               /\ running' = Holds(SubmitTask(r), st.pc)
               /\ published' = PublishSubmitted(published, P(r), st.pc)
               /\ UNCHANGED place_failed
       ELSE /\ orders' = SetStatus(orders, P(r), AckStatus(ok))
            /\ place_failed' = place_failed \cup {P(r)}
            /\ submit' = [submit EXCEPT ![r].pc = "done",
                                        ![r].result = Result(FALSE, "exchange")]
            /\ running' = NoTask
            /\ UNCHANGED <<placed, published>>
    /\ UNCHANGED <<mode, account_balance, max_orders_per_symbol,
                   daily_loss_limit_reached, cancel, cancel_calls>>

\* the exchange answers for the stop-loss child: lines 400-430 for the
\* child, 509-512, then the take-profit child
StopLossAck(r, ok, tickTP) ==
    /\ submit[r].pc = "sl_exch"
    /\ UNCHANGED otherVars
    /\ CanRun(SubmitTask(r))
    /\ LET acked == SetStatus(orders, SL(r), AckStatus(ok))
           ords == IF ok THEN RecordStopLoss(acked, P(r), SL(r)) ELSE acked
           st == TakeProfitStage(ords, placed, r, submit[r].req, tickTP, account_balance,
                                 max_orders_per_symbol, daily_loss_limit_reached)
       IN /\ orders' = st.orders
          /\ placed' = st.placed
          /\ submit' = [submit EXCEPT ![r].pc = st.pc, ![r].result = Finished(r, st.pc)]
          /\ running' = Holds(SubmitTask(r), st.pc)
          /\ published' = PublishSubmitted(IF ok THEN Publish(published, "order_submitted", SL(r))
                                                  ELSE published, P(r), st.pc)
    /\ place_failed' = IF ok THEN place_failed ELSE place_failed \cup {SL(r)}
    /\ UNCHANGED <<mode, account_balance, max_orders_per_symbol,
                   daily_loss_limit_reached, cancel, cancel_calls>>

\* the exchange answers for the take-profit child: lines 400-430 for the
\* child, 534-537, then lines 413-430 of the parent
TakeProfitAck(r, ok) ==
    /\ submit[r].pc = "tp_exch"
    /\ UNCHANGED otherVars
    /\ CanRun(SubmitTask(r))
    /\ LET acked == SetStatus(orders, TP(r), AckStatus(ok))
       IN orders' = IF ok THEN RecordTakeProfit(acked, P(r), TP(r)) ELSE acked
    /\ place_failed' = IF ok THEN place_failed ELSE place_failed \cup {TP(r)}
    /\ submit' = [submit EXCEPT ![r].pc = "done", ![r].result = Finished(r, "done")]
    /\ running' = NoTask
    /\ published' = PublishSubmitted(IF ok THEN Publish(published, "order_submitted", TP(r))
                                            ELSE published, P(r), "done")
    /\ UNCHANGED <<mode, account_balance, max_orders_per_symbol,
                   daily_loss_limit_reached, cancel, placed, cancel_calls>>

(***************************************************************************)
(* cancel_order.                                                           *)
(***************************************************************************)
\* faulty variant: only FILLED orders are refused
CancellableUnlessFilled(ords, id) == id \in DOMAIN ords /\ ords[id].status # FILLED

\* lines 545-550: the call goes on to the exchange
Cancellable(ords, id) == id \in DOMAIN ords /\ ords[id].status \in ActiveStatuses

\* faulty variant: the loop stops after the first child
NextChildFirstOnly(ords, id, from) ==
    IF from = 1 /\ Len(ords[id].child_orders) >= 1
       /\ ords[id].child_orders[1] \in DOMAIN ords
       /\ ords[ords[id].child_orders[1]].status \in ActiveStatuses
    THEN 1 ELSE 0

\* lines 573-574: `for child_order_id in order.child_orders` reads the live
\* list by position, so children appended during the loop are visited.  A
\* child whose cancel_order returns at lines 546-550 changes nothing; the
\* answer is the position of the next child that goes to the exchange, 0
\* when the loop ends.  (A child order has no children of its own: the
\* requests of lines 497-506 and 522-531 carry no stop-loss or take-profit.)
RECURSIVE NextChild(_, _, _)
NextChild(ords, id, from) ==
    IF from > Len(ords[id].child_orders) THEN 0
    ELSE IF Cancellable(ords, ords[id].child_orders[from]) THEN from
    ELSE NextChild(ords, id, from + 1)

\* faulty variant: the order is marked CANCELLED whatever the exchange answers
AfterCancelAlways(ords, id, ok) == SetStatus(ords, id, CANCELLED)

\* lines 568-570 and 583-584: the order is CANCELLED if the exchange
\* cancelled it, and left as it is otherwise
AfterCancel(ords, id, ok) == IF ok THEN SetStatus(ords, id, CANCELLED) ELSE ords

\* the state of the call after the loop moved on to position idx
Cascade(c, idx, failures) ==
    IF idx = 0
    THEN [cancel[c] EXCEPT !.pc = "done", !.idx = 0, !.exch_failures = failures,
                           !.result = Result(TRUE, "cancelled")]
    ELSE [cancel[c] EXCEPT !.pc = "child_exch", !.idx = idx, !.exch_failures = failures]

\* where submit_order of a parent order stands: submitting its children,
\* returned, or neither (also for every order that is not a parent)
SubmitPhase(id) ==
    IF id[2] # "P" THEN "other"
    ELSE IF submit[id[1]].pc \in {"sl_exch", "tp_exch"} THEN "children"
    ELSE IF submit[id[1]].pc = "done" THEN "returned"
    ELSE "other"

\* cancel_order(id) is called: lines 545-562
CancelOrder(c, id) ==
    /\ cancel[c].pc = "idle"
    /\ UNCHANGED otherVars
    /\ c > 1 => cancel[c - 1].pc # "idle"
    /\ Calls < MaxCalls
    /\ CanRun(CancelTask(c))
    /\ LET go == Cancellable(orders, id)
           pc == IF go THEN "exch" ELSE "done"
           res == IF go THEN NoResult
                  ELSE IF id \notin DOMAIN orders THEN Result(FALSE, "not_found")
                  ELSE Result(FALSE, "cannot_cancel")
       IN /\ cancel' = [cancel EXCEPT ![c] = [pc |-> pc, order_id |-> id, idx |-> 0,
                                              submit_phase |-> SubmitPhase(id),
                                              exch_failures |-> 0, result |-> res]]
          /\ cancel_calls' = IF go THEN cancel_calls + 1 ELSE cancel_calls
          /\ running' = Holds(CancelTask(c), pc)
    /\ UNCHANGED <<mode, account_balance, max_orders_per_symbol, daily_loss_limit_reached,
                   orders, submit, placed, place_failed, published>>

\* the exchange answers for the order: lines 568-584
CancelAck(c, ok) ==
    /\ cancel[c].pc = "exch"
    /\ UNCHANGED otherVars
    /\ CanRun(CancelTask(c))
    /\ IF ok
       THEN LET ords == AfterCancel(orders, cancel[c].order_id, ok)
                next == NextChild(ords, cancel[c].order_id, 1)
            IN /\ orders' = ords
               /\ cancel' = [cancel EXCEPT ![c] = Cascade(c, next, cancel[c].exch_failures)]
               /\ cancel_calls' = IF next = 0 THEN cancel_calls ELSE cancel_calls + 1
               /\ running' = Holds(CancelTask(c), cancel'[c].pc)
               /\ published' = PublishCancelled(published, cancel[c].order_id, next)
       ELSE /\ cancel' = [cancel EXCEPT ![c].pc = "done",
                                        ![c].exch_failures = @ + 1,
                                        ![c].result = Result(FALSE, "exchange")]
            /\ running' = NoTask
            /\ orders' = AfterCancel(orders, cancel[c].order_id, ok)
            /\ UNCHANGED <<cancel_calls, published>>
    /\ UNCHANGED <<mode, account_balance, max_orders_per_symbol, daily_loss_limit_reached,
                   submit, placed, place_failed>>

\* the exchange answers for child number idx: lines 568-584 for the child
\* (its result is dropped by line 574), then the loop goes on
ChildCancelAck(c, ok) ==
    /\ cancel[c].pc = "child_exch"
    /\ UNCHANGED otherVars
    /\ CanRun(CancelTask(c))
    /\ LET id == cancel[c].order_id
           child == orders[id].child_orders[cancel[c].idx]
           ords == AfterCancel(orders, child, ok)
           next == NextChild(ords, id, cancel[c].idx + 1)
           failures == cancel[c].exch_failures + (IF ok THEN 0 ELSE 1)
       IN /\ orders' = ords
          /\ cancel' = [cancel EXCEPT ![c] = Cascade(c, next, failures)]
          /\ cancel_calls' = IF next = 0 THEN cancel_calls ELSE cancel_calls + 1
          /\ running' = Holds(CancelTask(c), cancel'[c].pc)
          /\ published' = PublishCancelled(IF ok THEN Publish(published, "order_cancelled", child)
                                                  ELSE published, id, next)
    /\ UNCHANGED <<mode, account_balance, max_orders_per_symbol, daily_loss_limit_reached,
                   submit, placed, place_failed>>

(***************************************************************************)
(* The circuit breaker.  daily_loss_limit_reached is a public attribute    *)
(* (line 321) that no method of the module writes: the owner of the        *)
(* manager trips and resets it, between two handlers.                      *)
(***************************************************************************)
TripDailyLoss ==
    /\ running = NoTask
    /\ UNCHANGED otherVars
    /\ ~daily_loss_limit_reached
    /\ daily_loss_limit_reached' = TRUE
    /\ UNCHANGED <<mode, account_balance, max_orders_per_symbol, orders, submit, cancel,
                   placed, place_failed, cancel_calls, running, published>>

ResetDailyLoss ==
    /\ running = NoTask
    /\ UNCHANGED otherVars
    /\ daily_loss_limit_reached
    /\ daily_loss_limit_reached' = FALSE
    /\ UNCHANGED <<mode, account_balance, max_orders_per_symbol, orders, submit, cancel,
                   placed, place_failed, cancel_calls, running, published>>

\* the requests of the runs that interleave submit and cancel: a bracket
\* order (stop-loss and take-profit children) and a plain market order
BracketRequests ==
    { req \in TopRequests :
        /\ req.quantity = 1
        /\ \/ req.side = "BUY" /\ req.price = 50 /\ req.stop_loss_price = 30
                /\ req.take_profit_price = 70
           \/ req.side = "SELL" /\ req.price = NoPrice /\ req.stop_loss_price = NoPrice
                /\ req.take_profit_price = NoPrice }

(***************************************************************************)
(* Spec: submit_order and cancel_order calls of bracket and plain orders   *)
(* in every interleaving the event loop allows, with the default balance.  *)
(***************************************************************************)
Next ==
    \/ \E r \in Reqs, req \in BracketRequests, tick \in TickerAnswers : SubmitOrder(r, req, tick)
    \/ \E r \in Reqs, ok \in ExchangeAnswers, tickSL \in TickerAnswers, tickTP \in TickerAnswers :
          ExchangeAck(r, ok, tickSL, tickTP)
    \/ \E r \in Reqs, ok \in ExchangeAnswers, tickTP \in TickerAnswers : StopLossAck(r, ok, tickTP)
    \/ \E r \in Reqs, ok \in ExchangeAnswers : TakeProfitAck(r, ok)
    \/ \E c \in Cancels, id \in OrderIds : CancelOrder(c, id)
    \/ \E c \in Cancels, ok \in ExchangeAnswers : CancelAck(c, ok)
    \/ \E c \in Cancels, ok \in ExchangeAnswers : ChildCancelAck(c, ok)

Spec == Init /\ [][Next]_vars

(***************************************************************************)
(* SpecRisk: submit_order called with every request of TopRequests, under  *)
(* balances that separate the position-size limit from the percentage      *)
(* limit, with the circuit breaker tripped and reset, and one cancel_order *)
(* call freeing a slot of the per-symbol order limit.                      *)
(***************************************************************************)
InitRisk == InitWith(Balances)

NextRisk ==
    \/ \E r \in Reqs, req \in TopRequests, tick \in TickerAnswers : SubmitOrder(r, req, tick)
    \/ \E r \in Reqs, ok \in ExchangeAnswers, tickSL \in TickerAnswers, tickTP \in TickerAnswers :
          ExchangeAck(r, ok, tickSL, tickTP)
    \/ \E r \in Reqs, ok \in ExchangeAnswers, tickTP \in TickerAnswers : StopLossAck(r, ok, tickTP)
    \/ \E r \in Reqs, ok \in ExchangeAnswers : TakeProfitAck(r, ok)
    \/ TripDailyLoss
    \/ ResetDailyLoss

SpecRisk == InitRisk /\ [][NextRisk]_vars

(***************************************************************************)
(* PositionSizer.calculate_position_size (lines 141-192).  Floats are      *)
(* exact rationals <<numerator, denominator>> with a positive denominator, *)
(* kept in lowest terms; a division by zero raises ZeroDivisionError, as   *)
(* Python's float division does.                                           *)
(***************************************************************************)
RECURSIVE GCD(_, _)
GCD(a, b) == IF b = 0 THEN a ELSE GCD(b, a % b)

Abs(x) == IF x < 0 THEN -x ELSE x

\* n / d in lowest terms, d # 0
Rat(n, d) ==
    LET g == GCD(Abs(n), Abs(d))
        sign == IF d < 0 THEN -1 ELSE 1
    IN <<(sign * n) \div g, (sign * d) \div g>>

Zero == <<0, 1>>
RatOf(n) == <<n, 1>>
RatMul(a, b) == Rat(a[1] * b[1], a[2] * b[2])
RatDiv(a, b) == Rat(a[1] * b[2], a[2] * b[1])
RatLess(a, b) == a[1] * b[2] < b[1] * a[2]
RatMin(a, b) == IF RatLess(b, a) THEN b ELSE a
RatAbs(a) == <<Abs(a[1]), a[2]>>
RatSub(a, b) == Rat(a[1] * b[2] - b[1] * a[2], a[2] * b[2])

\* RiskParameters.stop_loss_percentage (0.02) and the default of the
\* risk_percentage parameter (0.02)
stop_loss_percentage == <<2, 100>>
default_risk_percentage == <<2, 100>>

\* lines 158-174: the per-unit risk; a stop_loss_price of None or 0 is false
RiskPerUnit(entry_price, stop_loss_price, stop_pct) ==
    IF stop_loss_price # NoPrice
    THEN RatAbs(RatSub(RatOf(entry_price), RatOf(stop_loss_price)))
    ELSE RatMul(RatOf(entry_price), stop_pct)

\* lines 159, 162-174
OptimalSize(entry_price, stop_loss_price, balance, risk_pct, stop_pct) ==
    LET max_risk_amount == RatMul(RatOf(balance), risk_pct)
        risk_per_unit == RiskPerUnit(entry_price, stop_loss_price, stop_pct)
    IN IF RatLess(Zero, risk_per_unit) THEN RatDiv(max_risk_amount, risk_per_unit) ELSE Zero

\* faulty variant: the percentage of the balance does not cap the position
MaxPositionValueSizeOnly(balance) == RatOf(max_position_size)

\* lines 177-180
MaxPositionValue(balance) ==
    RatMin(RatOf(max_position_size), RatMul(RatOf(balance), <<PctNum, PctDen>>))

\* the whole function: the call raises at line 182 when entry_price is 0
\* and at line 191 when account_balance is 0
calculate_position_size(entry_price, stop_loss_price, balance, risk_pct, stop_pct) ==
    LET optimal_size == OptimalSize(entry_price, stop_loss_price, balance, risk_pct, stop_pct)
        call == [NoSizing EXCEPT !.entry_price = entry_price,
                                 !.stop_loss_price = stop_loss_price,
                                 !.account_balance = balance,
                                 !.risk_percentage = risk_pct,
                                 !.stop_loss_percentage = stop_pct]
    IN IF entry_price = 0 \/ balance = 0
       THEN [call EXCEPT !.outcome = "ZeroDivisionError"]
       ELSE LET max_size_by_value == RatDiv(MaxPositionValue(balance), RatOf(entry_price))
            IN [call EXCEPT !.outcome = "returned",
                            !.optimal_quantity = optimal_size,
                            !.max_quantity_by_risk = max_size_by_value,
                            !.recommended_quantity = RatMin(optimal_size, max_size_by_value)]

\* the arguments and risk parameters the function is called with
EntryPrices == {0, 100, 50000}
SizerStopPrices == {NoPrice, 90, 100, 49000, 50000}
SizerBalances == {0, 1000, 10000, 100000}
RiskPercentages == {<<1, 100>>, default_risk_percentage, <<10, 100>>}
StopLossPercentages == {Zero, stop_loss_percentage}

CalculatePositionSize(entry_price, stop_loss_price, balance, risk_pct, stop_pct) ==
    /\ sizing' = calculate_position_size(entry_price, stop_loss_price, balance,
                                          Rat(risk_pct[1], risk_pct[2]),
                                          Rat(stop_pct[1], stop_pct[2]))
    /\ UNCHANGED <<omVars, bufVars, busVars, dispVars, wsVars, tsVars>>

(***************************************************************************)
(* SpecSizer: calculate_position_size called again and again.              *)
(***************************************************************************)
OMIdle ==
    /\ mode = "testnet"
    /\ account_balance = initial_balance
    /\ max_orders_per_symbol = 3
    /\ daily_loss_limit_reached = FALSE
    /\ orders = << >>
    /\ submit = [r \in Reqs |-> IdleSubmit]
    /\ cancel = [c \in Cancels |-> IdleCancel]
    /\ placed = {}
    /\ place_failed = {}
    /\ cancel_calls = 0
    /\ running = NoTask
    /\ published = {}

InitSizer == OMIdle /\ sizing = NoSizing /\ BufferIdle({1}) /\ BusIdle({1}) /\ DispatchIdle /\ StreamsIdle /\ TradingIdle

NextSizer ==
    \E e \in EntryPrices, sl \in SizerStopPrices, b \in SizerBalances,
       rp \in RiskPercentages, sp \in StopLossPercentages :
          CalculatePositionSize(e, sl, b, rp, sp)

SpecSizer == InitSizer /\ [][NextSizer]_vars

(***************************************************************************)
(* CircularBuffer and MarketDataBuffer of src/legacy/websocket_manager.py: *)
(* one ring buffer of ticks, its writer (add_tick) and a reader.           *)
(***************************************************************************)
\* capacities of the ring buffer, prices of the ticks, counts asked for
Capacities == {1, 2, 3}
TickPrices == {1, 2}
Counts == {0, 1, 2, 4}

\* faulty variant: a full buffer drops the new record
DequeAppendDropNew(buf, item, maxlen) ==
    IF Len(buf) >= maxlen THEN buf ELSE Append(buf, item)

\* deque(maxlen=maxsize).append(item) (lines 23 and 27): a full deque
\* discards its leftmost item
DequeAppend(buf, item, maxlen) ==
    IF maxlen = 0 THEN << >>
    ELSE IF Len(buf) >= maxlen THEN Append(Tail(buf), item)
    ELSE Append(buf, item)

\* Python's lst[start:]
PySliceFrom(lst, start) ==
    LET n == Len(lst)
        s0 == IF start < 0 THEN start + n ELSE start
        s1 == IF s0 < 0 THEN 0 ELSE IF s0 > n THEN n ELSE s0
    IN SubSeq(lst, s1 + 1, n)

\* CircularBuffer.get_recent (line 31)
get_recent(buf, count) ==
    IF count <= Len(buf) THEN PySliceFrom(buf, 0 - count) ELSE buf

\* faulty variant: get_all hands out the deque itself
ListAlias(buf) == [alias |-> TRUE, items |-> buf]

\* list(self.buffer) (lines 31 and 35): a new list with the records
ListCopy(buf) == [alias |-> FALSE, items |-> buf]

\* self.symbol_stats[symbol].copy() (line 162): a new dict
DictCopy(stats) == [alias |-> FALSE, value |-> stats]

\* what the reader sees in the list and in the dict it holds
ListView == IF reader_list.alias THEN buffer ELSE reader_list.items
StatsView == IF reader_stats.alias THEN symbol_stats ELSE reader_stats.value

\* MarketDataBuffer.add_tick (lines 68-92)
AddTick(price) ==
    /\ Len(appended) < MaxAppends
    /\ buffer' = DequeAppend(buffer, price, maxsize)
    /\ appended' = Append(appended, price)
    /\ symbol_stats' = [last_price |-> price, tick_count |-> symbol_stats.tick_count + 1]
    /\ UNCHANGED <<maxsize, reader_list, reader_stats, omVars, sizerVars, busVars, dispVars, wsVars, tsVars>>

\* CircularBuffer.get_recent(count), as called by get_latest_tick,
\* get_latest_klines and get_recent_trades (lines 142-158)
GetRecent(count) ==
    /\ reader_list' = [kind |-> "get_recent", count |-> count, alias |-> FALSE,
                        items |-> get_recent(buffer, count), at_call |-> buffer]
    /\ UNCHANGED <<maxsize, buffer, appended, symbol_stats, reader_stats, omVars, sizerVars, busVars, dispVars, wsVars, tsVars>>

\* CircularBuffer.get_all (lines 33-35)
GetAll ==
    /\ LET l == ListCopy(buffer)
       IN reader_list' = [kind |-> "get_all", count |-> 0, alias |-> l.alias,
                          items |-> l.items, at_call |-> buffer]
    /\ UNCHANGED <<maxsize, buffer, appended, symbol_stats, reader_stats, omVars, sizerVars, busVars, dispVars, wsVars, tsVars>>

\* MarketDataBuffer.get_symbol_stats (lines 160-162)
GetSymbolStats ==
    /\ LET d == DictCopy(symbol_stats)
       IN reader_stats' = [kind |-> "get_symbol_stats", alias |-> d.alias, value |-> d.value]
    /\ UNCHANGED <<maxsize, buffer, appended, symbol_stats, reader_list, omVars, sizerVars, busVars, dispVars, wsVars, tsVars>>

(***************************************************************************)
(* SpecBuffer: a writer appending ticks and a reader, in any order.        *)
(***************************************************************************)
InitBuffer == OMIdle /\ sizing = NoSizing /\ BufferIdle(Capacities) /\ BusIdle({1}) /\ DispatchIdle /\ StreamsIdle /\ TradingIdle

NextBuffer ==
    \/ \E price \in TickPrices : AddTick(price)
    \/ \E count \in Counts : GetRecent(count)
    \/ GetAll
    \/ GetSymbolStats

SpecBuffer == InitBuffer /\ [][NextBuffer]_vars

(***************************************************************************)
(* EventBus of src/legacy/events.py: the retained history.  The code fixes *)
(* _max_history at 1000; the model runs the same code with small bounds.   *)
(* An event is <<event_type, number of the publish call>>.                 *)
(***************************************************************************)
HistoryBounds == {2, 3}
Limits == {0, 1, 2, 3}

\* faulty variant: the history is never trimmed
PublishToHistoryUnbounded(hist, event, bound) == Append(hist, event)

\* EventBus.publish, lines 80-83
PublishToHistory(hist, event, bound) ==
    LET h == Append(hist, event)
    IN IF Len(h) > bound THEN Tail(h) ELSE h

\* [event for event in events if event.event_type == event_type]
RECURSIVE OfType(_, _)
OfType(events, event_type) ==
    IF events = << >> THEN << >>
    ELSE IF Head(events)[1] = event_type
         THEN <<Head(events)>> \o OfType(Tail(events), event_type)
         ELSE OfType(Tail(events), event_type)

\* EventBus.get_event_history, lines 149-154
get_event_history(hist, event_type, limit) ==
    IF event_type = NoEventType
    THEN PySliceFrom(hist, 0 - limit)
    ELSE OfType(PySliceFrom(hist, 0 - limit), event_type)

\* EventBus.publish(event) on a bus nobody has subscribed to: the history
\* (PublishDispatch below is publish with its subscribers)
PublishEvent(event_type) ==
    /\ Len(all_events) < MaxPublishes
    /\ LET event == <<event_type, Len(all_events) + 1>>
       IN /\ event_history' = PublishToHistory(event_history, event, max_history)
          /\ all_events' = Append(all_events, event)
    /\ UNCHANGED <<max_history, history_result, omVars, sizerVars, bufVars, dispVars, wsVars, tsVars>>

GetEventHistory(event_type, limit) ==
    /\ history_result' = [kind |-> "get_event_history", event_type |-> event_type,
                           limit |-> limit,
                           events |-> get_event_history(event_history, event_type, limit),
                           at_call |-> event_history]
    /\ UNCHANGED <<max_history, event_history, all_events, omVars, sizerVars, bufVars, dispVars, wsVars, tsVars>>

(***************************************************************************)
(* SpecBus: events published and the history read, in any order.           *)
(***************************************************************************)
InitBus == OMIdle /\ sizing = NoSizing /\ BufferIdle({1}) /\ BusIdle(HistoryBounds) /\ DispatchIdle /\ StreamsIdle /\ TradingIdle

NextBus ==
    \/ \E event_type \in EventTypes : PublishEvent(event_type)
    \/ \E event_type \in EventTypes \cup {NoEventType}, limit \in Limits :
          GetEventHistory(event_type, limit)

SpecBus == InitBus /\ [][NextBus]_vars

(***************************************************************************)
(* EventBus of src/legacy/events.py: subscribers and dispatch.             *)
(*                                                                         *)
(* A registration is a weak reference to a handler, named here by the      *)
(* handler it points to; it is dead once the handler is in `collected`.    *)
(* publish is a plain function: the history, then every synchronous        *)
(* handler, run to completion on the caller's stack (a handler that calls  *)
(* publish nests a whole publish inside its own), then                     *)
(* asyncio.create_task for the asynchronous handlers.  The task runs       *)
(* later, on the event loop; tasks start in creation order and give the    *)
(* loop away where a handler awaits.                                       *)
(***************************************************************************)
NoHandler == "None"

\* the handlers a program subscribes (parameter `handler` of subscribe and
\* subscribe_async): plain functions, one bound method, two coroutines
SyncHandlers == {"log_event", "failing", "chain", "panel.on_event"}
AsyncHandlers == {"store", "alert"}
Handlers == SyncHandlers \cup AsyncHandlers

\* hasattr(handler, '__self__'), lines 36 and 50: a bound method
IsMethod(handler) == handler = "panel.on_event"

\* what the handler does when it is called with an event: "returns",
\* "raises" an Exception, "publishes" a follow-up event of the same type
\* (unless the event is itself a follow-up) and returns, or "awaits"
\* something that suspends it before it returns
Behaviour(handler) ==
    CASE handler = "failing" -> "raises"
      [] handler = "alert" -> "raises"
      [] handler = "chain" -> "publishes"
      [] handler = "store" -> "awaits"
      [] OTHER -> "returns"

Kind(event) == event[1]

\* the references of a list that still have a handler (weak_ref() is not None)
Live(refs) == SelectSeq(refs, LAMBDA h : h \notin collected)

\* the state a publish call works on
BusNow ==
    [subs |-> subscribers, hist |-> event_history, all |-> all_events,
     log |-> deliveries, inside |-> inside_handler, tasks |-> dispatch_tasks]

\* asyncio.create_task(self._notify_async_subscribers(event)), line 89: the
\* coroutine has not run a line yet
NewDispatchTask(event) == [event |-> event, pc |-> "created", refs |-> << >>, idx |-> 0]

\* faulty variant: an exception of a handler ends the loop over the subscribers
NextSubscriberRaiseEnds(handler, i, n) == IF Behaviour(handler) = "raises" THEN n + 1 ELSE i + 1

\* the try / except inside the loop of _notify_sync_subscribers (lines
\* 109-112): whether the handler returns or raises, the loop goes on with
\* the next reference
NextSubscriber(handler, i, n) == i + 1

RECURSIVE publish(_, _, _)

\* handler(event), line 110
CallHandler(bus, handler, event) ==
    LET invoked == [bus EXCEPT !.log = Append(@, <<handler, event>>)]
    IN IF Behaviour(handler) = "publishes" /\ event \notin bus.inside
       THEN publish(invoked, Kind(event), handler)
       ELSE invoked

\* _notify_sync_subscribers from the i-th reference of the copy taken at
\* line 99 on; after the loop the dead references are removed (lines 114-118)
RECURSIVE notify_sync_subscribers(_, _, _, _)
notify_sync_subscribers(bus, event, refs, i) ==
    IF i > Len(refs)
    THEN [bus EXCEPT !.subs[Kind(event)] = Live(@)]
    ELSE IF refs[i] \in collected
         THEN notify_sync_subscribers(bus, event, refs, i + 1)
         ELSE notify_sync_subscribers(CallHandler(bus, refs[i], event), event, refs,
                                      NextSubscriber(refs[i], i, Len(refs)))

\* EventBus.publish (lines 76-92), called by `caller` (a handler, or
\* NoHandler for any other caller)
publish(bus, event_type, caller) ==
    LET event == <<event_type, Len(bus.all) + 1>>
        recorded == [bus EXCEPT !.hist = PublishToHistory(@, event, max_history),
                                !.all = Append(@, event),
                                !.inside = IF caller = NoHandler THEN @ ELSE @ \cup {event}]
        notified == notify_sync_subscribers(recorded, event, recorded.subs[event_type], 1)
    IN [notified EXCEPT !.tasks = Append(@, NewDispatchTask(event))]

\* _notify_async_subscribers (lines 119-145) of task t from the i-th
\* reference of its copy on, up to the first handler that suspends:
\* `await handler(event)` keeps the task until that handler is done
RECURSIVE notify_async_subscribers(_, _, _)
notify_async_subscribers(bus, t, i) ==
    LET task == bus.tasks[t]
    IN IF i > Len(task.refs)
       THEN [bus EXCEPT !.tasks[t].pc = "done", !.tasks[t].idx = i,
                        !.subs[Kind(task.event)] = Live(@)]
       ELSE IF task.refs[i] \in collected
            THEN notify_async_subscribers(bus, t, i + 1)
            ELSE LET invoked == [bus EXCEPT !.log = Append(@, <<task.refs[i], task.event>>)]
                 IN IF Behaviour(task.refs[i]) = "awaits"
                    THEN [invoked EXCEPT !.tasks[t].pc = "awaiting", !.tasks[t].idx = i]
                    ELSE notify_async_subscribers(invoked, t, i + 1)

\* the state a dispatch task works on
AsyncNow == [subs |-> async_subscribers, log |-> deliveries, tasks |-> dispatch_tasks]

\* the publish calls made from outside any handler
TopLevelEvents == SelectSeq(all_events, LAMBDA event : event \notin inside_handler)

\* EventBus.subscribe (lines 32-45)
Subscribe(event_type, handler) ==
    /\ subscribe_calls < MaxSubscribes
    /\ handler \notin collected
    /\ subscribers' = [subscribers EXCEPT ![event_type] = Append(@, handler)]
    /\ subscribe_calls' = subscribe_calls + 1
    /\ UNCHANGED <<async_subscribers, collected, deliveries, inside_handler, dispatch_tasks,
                   omVars, sizerVars, bufVars, busVars, wsVars, tsVars>>

\* EventBus.subscribe_async (lines 47-57)
SubscribeAsync(event_type, handler) ==
    /\ subscribe_calls < MaxSubscribes
    /\ handler \notin collected
    /\ async_subscribers' = [async_subscribers EXCEPT ![event_type] = Append(@, handler)]
    /\ subscribe_calls' = subscribe_calls + 1
    /\ UNCHANGED <<subscribers, collected, deliveries, inside_handler, dispatch_tasks,
                   omVars, sizerVars, bufVars, busVars, wsVars, tsVars>>

\* [ref for ref in refs if ref() is not handler], lines 63-66 and 69-72: a
\* dead reference answers None, a WeakMethod answers a new bound-method
\* object at every call, and neither `is` the handler passed in
Unsubscribed(refs, handler) ==
    SelectSeq(refs, LAMBDA h : h \in collected \/ IsMethod(h) \/ h # handler)

\* EventBus.unsubscribe (lines 59-74)
Unsubscribe(event_type, handler) ==
    /\ handler \notin collected
    /\ subscribers' = [subscribers EXCEPT ![event_type] = Unsubscribed(@, handler)]
    /\ async_subscribers' = [async_subscribers EXCEPT ![event_type] = Unsubscribed(@, handler)]
    /\ UNCHANGED <<collected, deliveries, inside_handler, dispatch_tasks,
                   subscribe_calls, omVars, sizerVars, bufVars, busVars, wsVars, tsVars>>

\* the last strong reference to a subscribed handler goes away: its weak
\* references are dead from now on
Collect(handler) ==
    /\ handler \notin collected
    /\ \E event_type \in EventTypes, i \in 1 .. MaxSubscribes :
          \/ i <= Len(subscribers[event_type]) /\ subscribers[event_type][i] = handler
          \/ i <= Len(async_subscribers[event_type])
             /\ async_subscribers[event_type][i] = handler
    /\ \A t \in DOMAIN dispatch_tasks :
          dispatch_tasks[t].pc = "awaiting"
             => dispatch_tasks[t].refs[dispatch_tasks[t].idx] # handler
    /\ collected' = collected \cup {handler}
    /\ UNCHANGED <<subscribers, async_subscribers, deliveries, inside_handler,
                   dispatch_tasks, subscribe_calls, omVars, sizerVars, bufVars, busVars, wsVars, tsVars>>

\* EventBus.publish(event) called from outside any handler
PublishDispatch(event_type) ==
    /\ Len(TopLevelEvents) < MaxDispatches
    /\ LET bus == publish(BusNow, event_type, NoHandler)
       IN /\ subscribers' = bus.subs
          /\ event_history' = bus.hist
          /\ all_events' = bus.all
          /\ deliveries' = bus.log
          /\ inside_handler' = bus.inside
          /\ dispatch_tasks' = bus.tasks
    /\ UNCHANGED <<async_subscribers, collected, max_history, history_result,
                   subscribe_calls, omVars, sizerVars, bufVars, wsVars, tsVars>>

\* the event loop runs a dispatch task for the first time: the oldest task
\* that has not started copies the list (line 124) and calls the handlers
StartDispatch(t) ==
    /\ t \in DOMAIN dispatch_tasks
    /\ dispatch_tasks[t].pc = "created"
    /\ \A u \in 1 .. (t - 1) : dispatch_tasks[u].pc # "created"
    /\ LET copied == [AsyncNow EXCEPT
                         !.tasks[t].refs = async_subscribers[Kind(dispatch_tasks[t].event)]]
           bus == notify_async_subscribers(copied, t, 1)
       IN /\ async_subscribers' = bus.subs
          /\ deliveries' = bus.log
          /\ dispatch_tasks' = bus.tasks
    /\ UNCHANGED <<subscribers, collected, inside_handler, subscribe_calls, omVars, sizerVars, bufVars, busVars, wsVars, tsVars>>

\* the handler a dispatch task awaits is done (it returns or raises): the
\* task goes on with the next reference
HandlerDone(t) ==
    /\ t \in DOMAIN dispatch_tasks
    /\ dispatch_tasks[t].pc = "awaiting"
    /\ LET bus == notify_async_subscribers(AsyncNow, t, dispatch_tasks[t].idx + 1)
       IN /\ async_subscribers' = bus.subs
          /\ deliveries' = bus.log
          /\ dispatch_tasks' = bus.tasks
    /\ UNCHANGED <<subscribers, collected, inside_handler, subscribe_calls, omVars, sizerVars, bufVars, busVars, wsVars, tsVars>>

(***************************************************************************)
(* SpecDispatch: handlers subscribed and unsubscribed, events published,   *)
(* dispatch tasks run by the event loop, handlers reclaimed.               *)
(***************************************************************************)
InitDispatch == OMIdle /\ sizing = NoSizing /\ BufferIdle({1}) /\ BusIdle({3}) /\ DispatchIdle /\ StreamsIdle /\ TradingIdle

DispatchTaskIds == 1 .. (2 * MaxDispatches)

NextDispatch ==
    \/ \E event_type \in EventTypes, handler \in SyncHandlers : Subscribe(event_type, handler)
    \/ \E event_type \in EventTypes, handler \in AsyncHandlers :
          SubscribeAsync(event_type, handler)
    \/ \E event_type \in EventTypes, handler \in Handlers : Unsubscribe(event_type, handler)
    \/ \E handler \in Handlers : Collect(handler)
    \/ \E event_type \in EventTypes : PublishDispatch(event_type)
    \/ \E t \in DispatchTaskIds : StartDispatch(t)
    \/ \E t \in DispatchTaskIds : HandlerDone(t)

SpecDispatch == InitDispatch /\ [][NextDispatch]_vars

(***************************************************************************)
(* The stream managers: WebSocketStreamManager of                          *)
(* src/legacy/websocket_manager.py and BinanceWebSocketManager of          *)
(* src/backend/app/core/binance_ws.py.  Both run one _maintain_connection  *)
(* task per subscribe call; the task loop is the same code in both, the    *)
(* managers differ in subscribe, unsubscribe and stop.  The code fixes the *)
(* number of attempts at 10; the model runs the same loop with small       *)
(* numbers.                                                                *)
(*                                                                         *)
(* A task is at "created" (asyncio.create_task was called, the coroutine   *)
(* has not run yet), "connecting" (awaiting websockets.connect),           *)
(* "connected" (awaiting the next message), "backoff" (awaiting            *)
(* asyncio.sleep), "finished" (the coroutine returned) or "cancelled"      *)
(* (CancelledError ended it).  socket is the state of the websocket the    *)
(* task holds; attempts counts the connection attempts the task has made   *)
(* since it was created or last connected; delay is the time the task      *)
(* sleeps while it is at "backoff" (0 elsewhere); skipped counts the       *)
(* messages of the current connection that were logged and dropped.        *)
(* Closing a websocket                                                     *)
(* (`await ws.close()`) is taken as one step with the call that closes it; *)
(* the task that reads from the websocket notices at its next step.        *)
(***************************************************************************)
AttemptLimits == {2, 3}
MaxSkipped == 1
reconnect_delay == 5

\* what arrives on a websocket: a ticker update, text that json.loads
\* refuses, and an update on which the handler raises
Messages == {"ticker", "not_json", "handler_raises"}

StreamOf(symbol, stream_type) == <<symbol, stream_type>>

\* `symbol_lower in stream_name`: the symbol is part of the stream's name
NameContains(stream, symbol) ==
    \/ stream[1] = symbol
    \/ symbol = "BTCUSDT" /\ stream[1] = "WBTCUSDT"

\* asyncio.create_task(self._maintain_connection(stream_name))
NewStreamTask(stream) ==
    [stream |-> stream, pc |-> "created", reconnect_count |-> 0, attempts |-> 0,
     cancel_requested |-> FALSE, socket |-> "none", delay |-> 0, skipped |-> 0]

StreamTaskIds == 1 .. MaxStreamTasks

\* the task has not returned and no cancellation is on its way
Active(t) ==
    /\ stream_tasks[t].pc \notin {"finished", "cancelled"}
    /\ ~ stream_tasks[t].cancel_requested

\* the task may run its next step (a task whose cancellation was
\* requested only gets CancelledError)
Runs(t, pc) ==
    /\ t \in DOMAIN stream_tasks
    /\ stream_tasks[t].pc = pc
    /\ ~ stream_tasks[t].cancel_requested

\* faulty variant: one more attempt than max_reconnect_attempts
RetryOnceMore(run, reconnect_count) == run /\ reconnect_count <= max_reconnect_attempts

\* `self.is_running and reconnect_count < self.max_reconnect_attempts`, the
\* condition of the while loop and of the reconnect logic
Retry(run, reconnect_count) == run /\ reconnect_count < max_reconnect_attempts

\* the head of the while loop: one more connection attempt, or the end of
\* the coroutine
Loop(task) ==
    IF Retry(is_running, task.reconnect_count)
    THEN [task EXCEPT !.pc = "connecting", !.attempts = @ + 1, !.delay = 0]
    ELSE [task EXCEPT !.pc = "finished", !.delay = 0]

\* the argument of asyncio.sleep in the reconnect logic, reconnect_count
\* being the counter after its increment: BinanceWebSocketManager sleeps
\* `self.reconnect_delay * reconnect_count`, WebSocketStreamManager
\* `self.reconnect_delay`
BackoffDelay(reconnect_count) ==
    IF manager_class = "backend" THEN reconnect_delay * reconnect_count
    ELSE reconnect_delay

\* what follows the try statement: the reconnect logic, then the head of the
\* loop (whose condition is false when that of the reconnect logic was)
AfterConnection(task) ==
    IF Retry(is_running, task.reconnect_count)
    THEN [task EXCEPT !.pc = "backoff", !.reconnect_count = @ + 1, !.socket = "none",
                      !.delay = BackoffDelay(task.reconnect_count + 1), !.skipped = 0]
    ELSE [task EXCEPT !.pc = "finished", !.socket = "none", !.skipped = 0]

\* `if stream_name in self.connections: del self.connections[stream_name]`
Forget(stream) == [connections EXCEPT ![stream] = NoStreamTask]

\* the websockets of the given streams are closed by the manager
CloseSockets(all_tasks, streams) ==
    [t \in DOMAIN all_tasks |->
        IF \E stream \in streams : connections[stream] = t /\ all_tasks[t].socket = "open"
        THEN [all_tasks[t] EXCEPT !.socket = "closed"]
        ELSE all_tasks[t]]

\* task.cancel() for the tasks the registry holds for the given streams
CancelTasks(all_tasks, streams) ==
    [t \in DOMAIN all_tasks |->
        IF /\ \E stream \in streams : tasks[stream] = t
           /\ all_tasks[t].pc \notin {"finished", "cancelled"}
        THEN [all_tasks[t] EXCEPT !.cancel_requested = TRUE]
        ELSE all_tasks[t]]

\* the event loop runs a task for the first time
TaskStart(t) ==
    /\ Runs(t, "created")
    /\ stream_tasks' = [stream_tasks EXCEPT ![t] = Loop(@)]
    /\ UNCHANGED <<manager_class, is_running, max_reconnect_attempts, connections,
                   subscribed_symbols, subscriptions, tasks, stream_events, stopped,
                   unsubscribed, omVars, sizerVars, bufVars, busVars, dispVars, tsVars>>

\* websockets.connect succeeds: the websocket is registered and the counter
\* reset
ConnectSucceeds(t) ==
    /\ Runs(t, "connecting")
    /\ stream_tasks' = [stream_tasks EXCEPT ![t] = [@ EXCEPT !.pc = "connected",
                                                              !.socket = "open",
                                                              !.reconnect_count = 0,
                                                              !.attempts = 0]]
    /\ connections' = [connections EXCEPT ![stream_tasks[t].stream] = t]
    /\ UNCHANGED <<manager_class, is_running, max_reconnect_attempts, subscribed_symbols,
                   subscriptions, tasks, stream_events, stopped, unsubscribed,
                   omVars, sizerVars, bufVars, busVars, dispVars, tsVars>>

\* websockets.connect raises
ConnectFails(t) ==
    /\ Runs(t, "connecting")
    /\ stream_tasks' = [stream_tasks EXCEPT ![t] = AfterConnection(@)]
    /\ connections' = Forget(stream_tasks[t].stream)
    /\ UNCHANGED <<manager_class, is_running, max_reconnect_attempts, subscribed_symbols,
                   subscriptions, tasks, stream_events, stopped, unsubscribed,
                   omVars, sizerVars, bufVars, busVars, dispVars, tsVars>>

\* asyncio.sleep returns
BackoffEnds(t) ==
    /\ Runs(t, "backoff")
    /\ stream_tasks' = [stream_tasks EXCEPT ![t] = Loop(@)]
    /\ UNCHANGED <<manager_class, is_running, max_reconnect_attempts, connections,
                   subscribed_symbols, subscriptions, tasks, stream_events, stopped,
                   unsubscribed, omVars, sizerVars, bufVars, busVars, dispVars, tsVars>>

\* faulty variant: a message that cannot be handled ends the connection
HandleOrReconnect(task, message) ==
    IF message = "ticker" THEN task ELSE AfterConnection(task)

\* the try statement around json.loads and _handle_message inside the loop
\* over the messages: JSONDecodeError and Exception are logged, the loop
\* goes on with the next message
HandleOrSkip(task, message) ==
    IF message = "ticker" THEN task ELSE [task EXCEPT !.skipped = @ + 1]

\* a message arrives: it is handled (the handler writes the update to the
\* buffer and publishes it) or logged and dropped; or, when the manager is
\* not running any more, the loop over the messages is left, the websocket
\* closed and the coroutine goes on after the try statement
ReceiveMessage(t, message) ==
    /\ Runs(t, "connected")
    /\ stream_tasks[t].socket = "open"
    /\ message # "ticker" => stream_tasks[t].skipped < MaxSkipped
    /\ IF is_running
       THEN /\ stream_events' =
                  IF message = "ticker"
                  THEN stream_events \cup {<<"market_data", stream_tasks[t].stream>>}
                  ELSE stream_events
            /\ stream_tasks' = [stream_tasks EXCEPT ![t] = HandleOrSkip(@, message)]
            /\ connections' =
                  IF stream_tasks'[t].pc = "connected" THEN connections
                  ELSE Forget(stream_tasks[t].stream)
       ELSE /\ stream_tasks' = [stream_tasks EXCEPT ![t] = AfterConnection(@)]
            /\ connections' = Forget(stream_tasks[t].stream)
            /\ UNCHANGED stream_events
    /\ UNCHANGED <<manager_class, is_running, max_reconnect_attempts, subscribed_symbols,
                   subscriptions, tasks, stopped, unsubscribed,
                   omVars, sizerVars, bufVars, busVars, dispVars, tsVars>>

\* the exchange or the network ends the connection
ConnectionDrops(t) ==
    /\ t \in DOMAIN stream_tasks
    /\ stream_tasks[t].socket = "open"
    /\ stream_tasks' = [stream_tasks EXCEPT ![t].socket = "closed"]
    /\ UNCHANGED <<manager_class, is_running, max_reconnect_attempts, connections,
                   subscribed_symbols, subscriptions, tasks, stream_events, stopped,
                   unsubscribed, omVars, sizerVars, bufVars, busVars, dispVars, tsVars>>

\* the task finds its websocket closed: the loop over the messages ends
ConnectionEnds(t) ==
    /\ Runs(t, "connected")
    /\ stream_tasks[t].socket = "closed"
    /\ stream_tasks' = [stream_tasks EXCEPT ![t] = AfterConnection(@)]
    /\ connections' = Forget(stream_tasks[t].stream)
    /\ UNCHANGED <<manager_class, is_running, max_reconnect_attempts, subscribed_symbols,
                   subscriptions, tasks, stream_events, stopped, unsubscribed,
                   omVars, sizerVars, bufVars, busVars, dispVars, tsVars>>

\* a task whose cancellation was requested gets CancelledError where it
\* waits: no except clause of the loop catches it, `async with` closes the
\* websocket, the coroutine ends
TaskCancelled(t) ==
    /\ t \in DOMAIN stream_tasks
    /\ stream_tasks[t].cancel_requested
    /\ stream_tasks[t].pc \notin {"finished", "cancelled"}
    /\ stream_tasks' = [stream_tasks EXCEPT ![t] = [@ EXCEPT !.pc = "cancelled",
                                                              !.socket = "none",
                                                              !.delay = 0,
                                                              !.skipped = 0]]
    /\ UNCHANGED <<manager_class, is_running, max_reconnect_attempts, connections,
                   subscribed_symbols, subscriptions, tasks, stream_events, stopped,
                   unsubscribed, omVars, sizerVars, bufVars, busVars, dispVars, tsVars>>

\* start() of either manager
StartManager ==
    /\ ~ is_running
    /\ is_running' = TRUE
    /\ stopped' = FALSE
    /\ UNCHANGED <<manager_class, max_reconnect_attempts, connections, subscribed_symbols,
                   subscriptions, tasks, stream_tasks, stream_events, unsubscribed,
                   omVars, sizerVars, bufVars, busVars, dispVars, tsVars>>

\* WebSocketStreamManager.stop
StreamManagerStop ==
    /\ manager_class = "legacy"
    /\ is_running' = FALSE
    /\ stream_tasks' = CloseSockets(stream_tasks, Streams)
    /\ connections' = [stream \in Streams |-> NoStreamTask]
    /\ stopped' = TRUE
    /\ UNCHANGED <<manager_class, max_reconnect_attempts, subscribed_symbols, subscriptions,
                   tasks, stream_events, unsubscribed,
                   omVars, sizerVars, bufVars, busVars, dispVars, tsVars>>

\* BinanceWebSocketManager.stop
BinanceManagerStop ==
    /\ manager_class = "backend"
    /\ is_running' = FALSE
    /\ stream_tasks' = CloseSockets(CancelTasks(stream_tasks, Streams), Streams)
    /\ connections' = [stream \in Streams |-> NoStreamTask]
    /\ tasks' = [stream \in Streams |-> NoStreamTask]
    /\ stopped' = TRUE
    /\ UNCHANGED <<manager_class, max_reconnect_attempts, subscribed_symbols, subscriptions,
                   stream_events, unsubscribed, omVars, sizerVars, bufVars, busVars, dispVars, tsVars>>

\* WebSocketStreamManager.subscribe_symbol(symbol, [stream_type]) with
\* _subscribe_to_stream
SubscribeSymbol(symbol, stream_type) ==
    /\ manager_class = "legacy"
    /\ Len(stream_tasks) < MaxStreamTasks
    /\ is_running' = TRUE
    /\ stopped' = FALSE
    /\ subscribed_symbols' = subscribed_symbols \cup {symbol}
    /\ stream_tasks' = Append(stream_tasks, NewStreamTask(StreamOf(symbol, stream_type)))
    /\ unsubscribed' = unsubscribed \ {symbol}
    /\ UNCHANGED <<manager_class, max_reconnect_attempts, connections, subscriptions, tasks,
                   stream_events, omVars, sizerVars, bufVars, busVars, dispVars, tsVars>>

\* BinanceWebSocketManager.subscribe_ticker(symbol) with _subscribe_stream
SubscribeTicker(symbol) ==
    /\ manager_class = "backend"
    /\ Len(stream_tasks) < MaxStreamTasks
    /\ unsubscribed' = unsubscribed \ {symbol}
    /\ LET stream == StreamOf(symbol, "ticker")
       IN IF connections[stream] # NoStreamTask
          THEN UNCHANGED <<subscriptions, stream_tasks, tasks>>
          ELSE /\ subscriptions' = subscriptions \cup {<<symbol, "ticker">>}
               /\ stream_tasks' = Append(stream_tasks, NewStreamTask(stream))
               /\ tasks' = [tasks EXCEPT ![stream] = Len(stream_tasks) + 1]
    /\ UNCHANGED <<manager_class, is_running, max_reconnect_attempts, connections,
                   subscribed_symbols, stream_events, stopped,
                   omVars, sizerVars, bufVars, busVars, dispVars, tsVars>>

\* WebSocketStreamManager.unsubscribe_symbol(symbol)
UnsubscribeSymbol(symbol) ==
    /\ manager_class = "legacy"
    /\ unsubscribed' = unsubscribed \cup {symbol}
    /\ IF symbol \in subscribed_symbols
       THEN LET streams_to_close == {stream \in Streams :
                                        /\ connections[stream] # NoStreamTask
                                        /\ NameContains(stream, symbol)}
            IN /\ subscribed_symbols' = subscribed_symbols \ {symbol}
               /\ stream_tasks' = CloseSockets(stream_tasks, streams_to_close)
               /\ connections' = [stream \in Streams |->
                                     IF stream \in streams_to_close THEN NoStreamTask
                                     ELSE connections[stream]]
       ELSE UNCHANGED <<subscribed_symbols, stream_tasks, connections>>
    /\ UNCHANGED <<manager_class, is_running, max_reconnect_attempts, subscriptions, tasks,
                   stream_events, stopped, omVars, sizerVars, bufVars, busVars, dispVars, tsVars>>

\* BinanceWebSocketManager.unsubscribe(symbol, stream_type) with
\* _close_stream; stream_type may be NoStreamType
BinanceUnsubscribe(symbol, stream_type) ==
    /\ manager_class = "backend"
    /\ unsubscribed' = unsubscribed \cup {symbol}
    /\ LET streams_to_remove == {stream \in Streams :
                                    /\ connections[stream] # NoStreamTask
                                    /\ NameContains(stream, symbol)
                                    /\ stream_type \in {NoStreamType, stream[2]}}
       IN /\ stream_tasks' = CloseSockets(CancelTasks(stream_tasks, streams_to_remove),
                                          streams_to_remove)
          /\ tasks' = [stream \in Streams |->
                          IF stream \in streams_to_remove THEN NoStreamTask
                          ELSE tasks[stream]]
          /\ connections' = [stream \in Streams |->
                                IF stream \in streams_to_remove THEN NoStreamTask
                                ELSE connections[stream]]
          /\ subscriptions' =
                IF stream_type = NoStreamType
                THEN {sub \in subscriptions : sub[1] # symbol}
                ELSE IF streams_to_remove # {}
                     THEN subscriptions \ {<<symbol, stream_type>>}
                     ELSE subscriptions
    /\ UNCHANGED <<manager_class, is_running, max_reconnect_attempts, subscribed_symbols,
                   stream_events, stopped, omVars, sizerVars, bufVars, busVars, dispVars, tsVars>>

(***************************************************************************)
(* SpecStreams: either manager, its callers and its tasks, with            *)
(* connections that succeed, fail and drop in every order.                 *)
(***************************************************************************)
InitStreams ==
    /\ OMIdle /\ sizing = NoSizing /\ BufferIdle({1}) /\ BusIdle({1}) /\ DispatchIdle
    /\ TradingIdle
    /\ manager_class \in ManagerClasses
    /\ is_running = FALSE
    /\ max_reconnect_attempts \in AttemptLimits
    /\ connections = [stream \in Streams |-> NoStreamTask]
    /\ subscribed_symbols = {}
    /\ subscriptions = {}
    /\ tasks = [stream \in Streams |-> NoStreamTask]
    /\ stream_tasks = << >>
    /\ stream_events = {}
    /\ stopped = FALSE
    /\ unsubscribed = {}

NextStreams ==
    \/ StartManager
    \/ StreamManagerStop
    \/ BinanceManagerStop
    \/ \E symbol \in StreamSymbols, stream_type \in StreamTypes :
          SubscribeSymbol(symbol, stream_type)
    \/ \E symbol \in StreamSymbols : SubscribeTicker(symbol)
    \/ \E symbol \in StreamSymbols : UnsubscribeSymbol(symbol)
    \/ \E symbol \in StreamSymbols, stream_type \in StreamTypes \cup {NoStreamType} :
          BinanceUnsubscribe(symbol, stream_type)
    \/ \E t \in StreamTaskIds : TaskStart(t)
    \/ \E t \in StreamTaskIds : ConnectSucceeds(t)
    \/ \E t \in StreamTaskIds : ConnectFails(t)
    \/ \E t \in StreamTaskIds : BackoffEnds(t)
    \/ \E t \in StreamTaskIds, message \in Messages : ReceiveMessage(t, message)
    \/ \E t \in StreamTaskIds : ConnectionDrops(t)
    \/ \E t \in StreamTaskIds : ConnectionEnds(t)
    \/ \E t \in StreamTaskIds : TaskCancelled(t)

SpecStreams == InitStreams /\ [][NextStreams]_vars

(***************************************************************************)
(* The portfolio (src/portfolio.py): Position, RiskManager and Portfolio.  *)
(* Prices are whole numbers; quantities, pnl, balances and the daily loss  *)
(* are fractions <<numerator, denominator>> in lowest terms, so that the   *)
(* arithmetic is the arithmetic of the code without its rounding.  A       *)
(* Position object is a record; entry_time stands for the object's         *)
(* identity: it is the number of the position in the order of creation.    *)
(***************************************************************************)
MaxPositions == 3

Sides == {"buy", "sell"}
PositionQuantities == {<<1, 1>>, <<2, 1>>}
PositionEntryPrices == {101}

\* RiskManager.__init__: Config.MAX_POSITION_SIZE / 100 with the default
\* 0.1, max_daily_loss 0.05, max_drawdown 0.15, max_open_positions 3
risk_max_position_size == <<1, 1000>>
max_daily_loss == <<5, 100>>
max_drawdown == <<15, 100>>
max_open_positions == 3

\* a + b over the least common denominator
RatAdd(a, b) ==
    LET g == GCD(a[2], b[2])
    IN Rat(a[1] * (b[2] \div g) + b[1] * (a[2] \div g), (a[2] \div g) * b[2])
RatMax(a, b) == IF RatLess(a, b) THEN b ELSE a

\* Position.__init__
NewPosition(symbol, side, quantity, entry_price, stop_loss, take_profit, entry_time) ==
    [symbol |-> symbol, side |-> side, quantity |-> quantity, entry_price |-> entry_price,
     stop_loss |-> stop_loss, take_profit |-> take_profit, entry_time |-> entry_time,
     exit_price |-> NoPrice, pnl |-> Zero, status |-> "open"]

\* Position.update_pnl
update_pnl(position, current_price) ==
    [position EXCEPT !.pnl =
        IF position.side = "buy"
        THEN RatMul(RatOf(current_price - position.entry_price), position.quantity)
        ELSE RatMul(RatOf(position.entry_price - current_price), position.quantity)]

\* Position.close_position
Position_close_position(position, exit_price) ==
    update_pnl([position EXCEPT !.exit_price = exit_price, !.status = "closed"], exit_price)

\* the portfolio as one value: what the operators below take and return
PortfolioNow ==
    [positions |-> positions, current_balance |-> current_balance,
     trade_history |-> trade_history, daily_loss |-> daily_loss]

\* faulty variant: a position counts as open whatever its status
AnyStatus(position) == TRUE

\* `position.status == 'open'`
IsOpen(position) == position.status = "open"

\* faulty variant: the closed positions are returned as well
get_all_positions(pf) == DOMAIN pf.positions

\* Portfolio.get_open_positions, as the places in Portfolio.positions, which
\* the callers visit in ascending order
get_open_positions(pf) == {i \in 1 .. Len(pf.positions) : IsOpen(pf.positions[i])}

\* faulty variant: no position is ever found
NoPositionFound(pf, symbol) == 0

\* Portfolio.get_position_by_symbol and the loop of Portfolio.close_position:
\* the place of the first open position of the symbol, 0 for None
get_position_by_symbol(pf, symbol) ==
    LET found == {i \in get_open_positions(pf) : pf.positions[i].symbol = symbol}
    IN IF found = {} THEN 0 ELSE CHOOSE i \in found : \A j \in found : i <= j

\* RiskManager.update_daily_loss
update_daily_loss(loss_so_far, loss) ==
    IF RatLess(Zero, loss)
    THEN RatAdd(loss_so_far, RatDiv(loss, RatOf(initial_balance)))
    ELSE loss_so_far

\* Portfolio.close_position; the portfolio is returned as it was when no
\* open position of the symbol is found
Portfolio_close_position(pf, symbol, exit_price) ==
    LET i == get_position_by_symbol(pf, symbol)
    IN IF i = 0 THEN pf
       ELSE LET position == Position_close_position(pf.positions[i], exit_price)
            IN [positions |-> [pf.positions EXCEPT ![i] = position],
                current_balance |-> RatAdd(pf.current_balance, position.pnl),
                trade_history |-> Append(pf.trade_history, position),
                daily_loss |-> IF RatLess(position.pnl, Zero)
                               THEN update_daily_loss(pf.daily_loss, RatAbs(position.pnl))
                               ELSE pf.daily_loss]

\* the portfolio's variables take the values of pf
PortfolioBecomes(pf) ==
    /\ positions' = pf.positions
    /\ current_balance' = pf.current_balance
    /\ trade_history' = pf.trade_history
    /\ daily_loss' = pf.daily_loss

\* Portfolio.add_position(Position(...))
AddPosition(symbol, side, quantity, entry_price, stop_loss, take_profit) ==
    /\ Len(positions) < MaxPositions
    /\ positions' = Append(positions,
                           NewPosition(symbol, side, quantity, entry_price, stop_loss,
                                       take_profit, Len(positions) + 1))
    /\ exit_submissions' = Append(exit_submissions, 0)
    /\ UNCHANGED <<is_initialized, is_monitoring, current_balance, trade_history,
                   daily_loss, market, monitor_loops,
                   omVars, sizerVars, bufVars, busVars, dispVars, wsVars>>

\* Portfolio.close_position(symbol, exit_price)
PortfolioClosePosition(symbol, exit_price) ==
    /\ PortfolioBecomes(Portfolio_close_position(PortfolioNow, symbol, exit_price))
    /\ UNCHANGED <<is_initialized, is_monitoring, market, monitor_loops, exit_submissions,
                   omVars, sizerVars, bufVars, busVars, dispVars, wsVars>>

\* Portfolio.update_positions_pnl(prices), prices being a dict with a price
\* for some of the symbols
UpdatePositionsPnl(prices) ==
    /\ positions' = [i \in DOMAIN positions |->
                        IF IsOpen(positions[i]) /\ prices[positions[i].symbol] # NoPrice
                        THEN update_pnl(positions[i], prices[positions[i].symbol])
                        ELSE positions[i]]
    /\ UNCHANGED <<is_initialized, is_monitoring, current_balance, trade_history,
                   daily_loss, market, monitor_loops, exit_submissions,
                   omVars, sizerVars, bufVars, busVars, dispVars, wsVars>>

(***************************************************************************)
(* SpecPortfolio: a portfolio and a caller that adds positions, closes     *)
(* them by symbol and re-prices them, in any order.                        *)
(***************************************************************************)
ExitPrices == {99, 102}
PortfolioStops == {100}
PortfolioTargets == {NoPrice}

InitPortfolio ==
    /\ OMIdle /\ sizing = NoSizing /\ BufferIdle({1}) /\ BusIdle({1}) /\ DispatchIdle
    /\ StreamsIdle /\ TradingIdle

NextPortfolio ==
    \/ \E symbol \in TradeSymbols, side \in Sides, quantity \in PositionQuantities,
          entry_price \in PositionEntryPrices, stop_loss \in PortfolioStops,
          take_profit \in PortfolioTargets :
          AddPosition(symbol, side, quantity, entry_price, stop_loss, take_profit)
    \/ \E symbol \in TradeSymbols, exit_price \in ExitPrices :
          PortfolioClosePosition(symbol, exit_price)
    \/ \E prices \in [TradeSymbols -> ExitPrices \cup {NoPrice}] : UpdatePositionsPnl(prices)

SpecPortfolio == InitPortfolio /\ [][NextPortfolio]_vars

(***************************************************************************)
(* The trading service (src/legacy/trading_service.py) on its portfolio.   *)
(* The client's get_symbol_ticker and get_klines are synchronous and no    *)
(* method of the service awaits anything but its own coroutines and        *)
(* asyncio.sleep, so execute_position, close_position and one sweep of     *)
(* monitor_positions each run without giving up the event loop.  A ticker  *)
(* request answers with the price of the market or raises; the requests    *)
(* that raise are an input of each step.  The events and log lines of the  *)
(* service are left out.  The size calculate_position_size gives to a new  *)
(* position is a float that depends on the whole history of the portfolio; *)
(* it is an input of execute_position here, taken from PositionSizes, and  *)
(* the risk checks are made on it as the code makes them.                  *)
(*                                                                         *)
(* A start_monitoring coroutine is at "sleeping" (inside asyncio.sleep) or *)
(* "finished".  Sweeps are also run by the scheduler job that              *)
(* api_server.lifespan adds next to the start_monitoring task.             *)
(***************************************************************************)
MaxMonitorLoops == 2
MaxTrades == 2

\* what analyze_market returns as strategy_signal
Signals ==
    {[action |-> "hold", confidence |-> <<0, 1>>, entry_price |-> NoPrice,
      stop_loss |-> NoPrice, take_profit |-> NoPrice],
     [action |-> "buy", confidence |-> <<1, 2>>, entry_price |-> 101,
      stop_loss |-> 100, take_profit |-> NoPrice],
     [action |-> "buy", confidence |-> <<1, 2>>, entry_price |-> 101,
      stop_loss |-> NoPrice, take_profit |-> 101],
     [action |-> "sell", confidence |-> <<1, 2>>, entry_price |-> 101,
      stop_loss |-> 101, take_profit |-> NoPrice],
     [action |-> "sell", confidence |-> <<1, 2>>, entry_price |-> 101,
      stop_loss |-> NoPrice, take_profit |-> 99]}

\* Portfolio.get_total_pnl over the first n positions
RECURSIVE get_total_pnl(_, _)
get_total_pnl(pf, n) ==
    IF n = 0 THEN Zero
    ELSE IF IsOpen(pf.positions[n]) THEN RatAdd(get_total_pnl(pf, n - 1), pf.positions[n].pnl)
         ELSE get_total_pnl(pf, n - 1)

\* Portfolio.get_portfolio_value
get_portfolio_value(pf) == RatAdd(pf.current_balance, get_total_pnl(pf, Len(pf.positions)))

\* what Portfolio.calculate_position_size may return for a portfolio worth
\* about initial_balance and a confidence of 0.5
PositionSizes == {<<5, 1>>}

\* Portfolio.can_open_position with RiskManager.should_allow_trade
can_open_position(pf, proposed_size) ==
    LET balance == get_portfolio_value(pf)
        drawdown == RatDiv(RatSub(RatOf(initial_balance), balance), RatOf(initial_balance))
    IN /\ Cardinality(get_open_positions(pf)) < max_open_positions
       /\ RatLess(pf.daily_loss, max_daily_loss)
       /\ RatLess(drawdown, max_drawdown)
       /\ ~ RatLess(RatMul(balance, risk_max_position_size), proposed_size)

\* the status execute_position returns
ExecuteStatus(pf, symbol, signal, position_size, analysis_fails) ==
    IF analysis_fails THEN "error"
    ELSE IF signal.action = "hold" THEN "no_signal"
    ELSE IF ~ can_open_position(pf, position_size) THEN "blocked"
    ELSE IF get_position_by_symbol(pf, symbol) # 0 THEN "exists"
    ELSE "success"

\* TradingService.execute_position(symbol)
ExecutePosition(symbol, signal, position_size, analysis_fails) ==
    /\ is_initialized
    /\ LET status == ExecuteStatus(PortfolioNow, symbol, signal, position_size,
                                   analysis_fails)
       IN IF status = "success"
          THEN /\ Len(positions) < MaxTrades
               /\ positions' =
                     Append(positions,
                            NewPosition(symbol, signal.action,
                                        RatDiv(position_size, RatOf(signal.entry_price)),
                                        signal.entry_price, signal.stop_loss,
                                        signal.take_profit, Len(positions) + 1))
               /\ exit_submissions' = Append(exit_submissions, 0)
          ELSE UNCHANGED <<positions, exit_submissions>>
    /\ UNCHANGED <<is_initialized, is_monitoring, current_balance, trade_history,
                   daily_loss, market, monitor_loops,
                   omVars, sizerVars, bufVars, busVars, dispVars, wsVars>>

\* TradingService.close_position as a function of the portfolio: the
\* portfolio afterwards, the status returned and whether the portfolio was
\* asked to close
close_position(pf, symbol, ticker_fails) ==
    IF ticker_fails
    THEN [pf |-> pf, status |-> "error", submitted |-> FALSE]
    ELSE [pf |-> Portfolio_close_position(pf, symbol, market[symbol]),
          status |-> IF get_position_by_symbol(pf, symbol) = 0 THEN "not_found"
                     ELSE "success",
          submitted |-> TRUE]

\* TradingService.close_position(symbol), called from outside
ClosePosition(symbol, ticker_fails) ==
    /\ is_initialized
    /\ LET closed == close_position(PortfolioNow, symbol, ticker_fails)
       IN PortfolioBecomes(closed.pf)
    /\ UNCHANGED <<is_initialized, is_monitoring, market, monitor_loops, exit_submissions,
                   omVars, sizerVars, bufVars, busVars, dispVars, wsVars>>

\* the exit conditions of monitor_positions; a stop or target of None (and
\* of 0) is false in `position.stop_loss and ...`
should_exit(position, current_price) ==
    IF position.side = "buy"
    THEN \/ position.stop_loss # NoPrice /\ current_price <= position.stop_loss
         \/ position.take_profit # NoPrice /\ current_price >= position.take_profit
    ELSE \/ position.stop_loss # NoPrice /\ current_price >= position.stop_loss
         \/ position.take_profit # NoPrice /\ current_price <= position.take_profit

\* the places of a set in ascending order
RECURSIVE Ascending(_)
Ascending(places) ==
    IF places = {} THEN << >>
    ELSE LET first == CHOOSE i \in places : \A j \in places : i <= j
         IN <<first>> \o Ascending(places \ {first})

\* the loop of monitor_positions over open_positions, from the position at
\* the head of todo on.  seen is the portfolio with the record of the closes
\* asked for; monitor_fails are the symbols whose ticker request in the loop
\* raises, close_fails those whose request inside close_position raises.  An
\* exception in the loop is caught outside the loop, which ends the sweep;
\* close_position catches its own.
RECURSIVE monitor_loop(_, _, _, _)
monitor_loop(seen, todo, monitor_fails, close_fails) ==
    IF todo = << >> THEN seen
    ELSE LET i == Head(todo)
             symbol == seen.pf.positions[i].symbol
         IN IF symbol \in monitor_fails THEN seen
            ELSE LET current_price == market[symbol]
                     position == update_pnl(seen.pf.positions[i], current_price)
                     priced == [seen.pf EXCEPT !.positions[i] = position]
                 IN IF should_exit(position, current_price)
                    THEN LET closed == close_position(priced, symbol,
                                                      symbol \in close_fails)
                         IN monitor_loop(
                               [pf |-> closed.pf,
                                submissions |->
                                   IF closed.submitted
                                   THEN [seen.submissions EXCEPT ![i] = @ + 1]
                                   ELSE seen.submissions],
                               Tail(todo), monitor_fails, close_fails)
                    ELSE monitor_loop([seen EXCEPT !.pf = priced], Tail(todo),
                                      monitor_fails, close_fails)

\* TradingService.monitor_positions: one sweep
monitor_positions(monitor_fails, close_fails) ==
    LET seen == [pf |-> PortfolioNow, submissions |-> exit_submissions]
    IN IF ~ is_initialized THEN seen
       ELSE monitor_loop(seen, Ascending(get_open_positions(PortfolioNow)),
                         monitor_fails, close_fails)

\* the variables a sweep writes take the values of seen
SweepBecomes(seen) ==
    /\ PortfolioBecomes(seen.pf)
    /\ exit_submissions' = seen.submissions

\* TradingService.initialize
Initialize(ok) ==
    /\ ~ is_initialized
    /\ is_initialized' = ok
    /\ UNCHANGED <<is_monitoring, current_balance, positions, trade_history, daily_loss,
                   market, monitor_loops, exit_submissions,
                   omVars, sizerVars, bufVars, busVars, dispVars, wsVars>>

\* the market moves
PriceMoves(symbol, price) ==
    /\ market[symbol] # price
    /\ market' = [market EXCEPT ![symbol] = price]
    /\ UNCHANGED <<is_initialized, is_monitoring, current_balance, positions,
                   trade_history, daily_loss, monitor_loops, exit_submissions,
                   omVars, sizerVars, bufVars, busVars, dispVars, wsVars>>

\* the scheduler runs its monitor_positions job
ScheduledMonitor(monitor_fails, close_fails) ==
    /\ SweepBecomes(monitor_positions(monitor_fails, close_fails))
    /\ UNCHANGED <<is_initialized, is_monitoring, market, monitor_loops,
                   omVars, sizerVars, bufVars, busVars, dispVars, wsVars>>

\* a start_monitoring task runs from its first line to its first sleep, or
\* returns at once when monitoring is already on
StartMonitoring(monitor_fails, close_fails) ==
    /\ Len(monitor_loops) < MaxMonitorLoops
    /\ IF is_monitoring
       THEN /\ monitor_loops' = Append(monitor_loops, [pc |-> "finished"])
            /\ UNCHANGED <<is_monitoring, current_balance, positions, trade_history,
                           daily_loss, exit_submissions>>
       ELSE /\ is_monitoring' = TRUE
            /\ SweepBecomes(monitor_positions(monitor_fails, close_fails))
            /\ monitor_loops' = Append(monitor_loops, [pc |-> "sleeping"])
    /\ UNCHANGED <<is_initialized, market,
                   omVars, sizerVars, bufVars, busVars, dispVars, wsVars>>

\* asyncio.sleep returns in a start_monitoring task: the head of the while
\* loop, then one more sweep and sleep, or the end of the coroutine
MonitorWakes(t, monitor_fails, close_fails) ==
    /\ t \in DOMAIN monitor_loops
    /\ monitor_loops[t].pc = "sleeping"
    /\ IF is_monitoring
       THEN /\ SweepBecomes(monitor_positions(monitor_fails, close_fails))
            /\ UNCHANGED monitor_loops
       ELSE /\ monitor_loops' = [monitor_loops EXCEPT ![t].pc = "finished"]
            /\ UNCHANGED <<current_balance, positions, trade_history, daily_loss,
                           exit_submissions>>
    /\ UNCHANGED <<is_initialized, is_monitoring, market,
                   omVars, sizerVars, bufVars, busVars, dispVars, wsVars>>

\* TradingService.stop_monitoring
StopMonitoring ==
    /\ is_monitoring' = FALSE
    /\ UNCHANGED <<is_initialized, current_balance, positions, trade_history, daily_loss,
                   market, monitor_loops, exit_submissions,
                   omVars, sizerVars, bufVars, busVars, dispVars, wsVars>>

(***************************************************************************)
(* SpecTrading: the service with its callers, the scheduler, the           *)
(* monitoring tasks and a market that moves, in every order.               *)
(***************************************************************************)
MonitorLoopIds == 1 .. MaxMonitorLoops

\* the ticker requests that raise during one sweep: none, or one of the
\* requests for one of the symbols
TickerFailures ==
    {<<monitor_fails, close_fails>> \in (SUBSET TradeSymbols) \X (SUBSET TradeSymbols) :
        Cardinality(monitor_fails) + Cardinality(close_fails) <= 1}

InitTrading ==
    /\ OMIdle /\ sizing = NoSizing /\ BufferIdle({1}) /\ BusIdle({1}) /\ DispatchIdle
    /\ StreamsIdle /\ TradingIdle

NextTrading ==
    \/ \E ok \in BOOLEAN : Initialize(ok)
    \/ \E symbol \in TradeSymbols, signal \in Signals, position_size \in PositionSizes,
          analysis_fails \in BOOLEAN :
          ExecutePosition(symbol, signal, position_size, analysis_fails)
    \/ \E symbol \in TradeSymbols, ticker_fails \in BOOLEAN :
          ClosePosition(symbol, ticker_fails)
    \/ \E symbol \in TradeSymbols, price \in TickerPrices : PriceMoves(symbol, price)
    \/ \E fails \in TickerFailures : ScheduledMonitor(fails[1], fails[2])
    \/ \E fails \in TickerFailures : StartMonitoring(fails[1], fails[2])
    \/ \E t \in MonitorLoopIds, fails \in TickerFailures : MonitorWakes(t, fails[1], fails[2])
    \/ StopMonitoring

SpecTrading == InitTrading /\ [][NextTrading]_vars

(***************************************************************************)
(* Claims about submit_order and cancel_order interleaved (Spec).          *)
(***************************************************************************)
RequestOf(id) == submit[id[1]].req
ChildrenOf(id) == { k \in DOMAIN orders : orders[k].parent_order_id = id }
Recorded(id) == { orders[id].child_orders[i] : i \in 1 .. Len(orders[id].child_orders) }
IsBracket(req) == req.stop_loss_price # NoPrice /\ req.take_profit_price # NoPrice

C2_NoActiveChildOfCancelledParent ==
    \A c \in Cancels :
        ( /\ cancel[c].pc = "done"
          /\ cancel[c].submit_phase = "children"
          /\ submit[cancel[c].order_id[1]].pc = "done"
          /\ orders[cancel[c].order_id].status = CANCELLED )
        => \A k \in ChildrenOf(cancel[c].order_id) : orders[k].status \notin ActiveStatuses

\* a cancel_order(parent) call that returned success, was made after
\* submit_order had returned success for a request with a stop-loss and a
\* take-profit price, and met no refusal of the exchange
CancelledAfterBracket(c) ==
    /\ cancel[c].pc = "done"
    /\ cancel[c].submit_phase = "returned"
    /\ cancel[c].result.success
    /\ cancel[c].exch_failures = 0
    /\ submit[cancel[c].order_id[1]].result.success
    /\ IsBracket(RequestOf(cancel[c].order_id))

\* C3 as stated: after submit_order succeeded for a request with a
\* stop-loss and a take-profit price, cancel_order(parent) leaves the parent
\* and both child orders in CANCELLED.
C3_ParentAndBothChildrenCancelled ==
    \A c \in Cancels :
        CancelledAfterBracket(c) =>
            LET r == cancel[c].order_id[1]
            IN /\ orders[P(r)].status = CANCELLED
               /\ SL(r) \in DOMAIN orders /\ orders[SL(r)].status = CANCELLED
               /\ TP(r) \in DOMAIN orders /\ orders[TP(r)].status = CANCELLED

\* C3 amended: such a cancel_order(parent) leaves the parent CANCELLED, every
\* child recorded on the parent CANCELLED, and no child order active: a child
\* whose own submission was refused is either absent or REJECTED.
C3_ParentAndRecordedChildrenCancelled ==
    \A c \in Cancels :
        CancelledAfterBracket(c) =>
            LET id == cancel[c].order_id
            IN /\ orders[id].status = CANCELLED
               /\ \A k \in Recorded(id) : k \in DOMAIN orders /\ orders[k].status = CANCELLED
               /\ \A k \in ChildrenOf(id) :
                     /\ orders[k].status \in {CANCELLED, REJECTED}
                     /\ orders[k].status = CANCELLED <=> k \in Recorded(id)

\* C3 witness: a bracket order with both children, cancelled with both.
C3_Witness ==
    \E c \in Cancels :
        /\ CancelledAfterBracket(c)
        /\ Len(orders[cancel[c].order_id].child_orders) = 2
        /\ \A k \in Recorded(cancel[c].order_id) : orders[k].status = CANCELLED

C8_PlacementFailureRejects ==
    \A id \in place_failed :
        /\ id \in DOMAIN orders
        /\ orders[id].status = REJECTED
        /\ orders[id].child_orders = << >>
        /\ ChildrenOf(id) = {}
        /\ \A k \in DOMAIN orders : id \notin Recorded(k)
        /\ id[2] = "P" =>
              /\ submit[id[1]].pc = "done"
              /\ ~submit[id[1]].result.success
              /\ submit[id[1]].result.message = "exchange"

\* C8 witness: a bracket request whose parent the exchange refused.
C8_Witness ==
    \E r \in Reqs :
        /\ P(r) \in place_failed
        /\ IsBracket(submit[r].req)
        /\ submit[r].pc = "done"

\* a step in which cancel_order is called by cancel[c]
CancelCalled(c) == cancel[c].pc = "idle" /\ cancel'[c].pc # "idle"

\* C9: cancel_order on an unknown order id, or on an order in FILLED,
\* CANCELLED, REJECTED or EXPIRED, returns a failure result, sends nothing
\* to the exchange and changes no order.
C9_CancelRefusedIsNoOp ==
    [][\A c \in Cancels :
          ( /\ CancelCalled(c)
            /\ \/ cancel'[c].order_id \notin DOMAIN orders
               \/ orders[cancel'[c].order_id].status \in TerminalStatuses )
          => /\ cancel'[c].pc = "done"
             /\ ~cancel'[c].result.success
             /\ cancel'[c].result.message =
                   (IF cancel'[c].order_id \in DOMAIN orders THEN "cannot_cancel" ELSE "not_found")
             /\ cancel_calls' = cancel_calls
             /\ orders' = orders]_vars

\* C9 witness: one call refused for an unknown id, one for a CANCELLED or
\* REJECTED order.
C9_Witness ==
    /\ \E c \in Cancels : cancel[c].pc = "done" /\ cancel[c].result.message = "not_found"
    /\ \E c \in Cancels : cancel[c].pc = "done" /\ cancel[c].result.message = "cannot_cancel"

\* C10: a step in which the exchange refuses a cancellation changes no
\* order; when it is the cancellation of the order the call was made for,
\* the call returns failure with the exchange reason and cancels no child.
C10_CancelFailureChangesNothing ==
    [][\A c \in Cancels :
          cancel'[c].exch_failures > cancel[c].exch_failures
          => /\ orders' = orders
             /\ cancel[c].pc = "exch" =>
                   /\ cancel'[c].pc = "done"
                   /\ ~cancel'[c].result.success
                   /\ cancel'[c].result.message = "exchange"
                   /\ cancel_calls' = cancel_calls]_vars

\* C10 witness: the exchange refused to cancel a parent that has children.
C10_Witness ==
    \E c \in Cancels :
        /\ cancel[c].pc = "done"
        /\ cancel[c].result.message = "exchange"
        /\ orders[cancel[c].order_id].child_orders # << >>
        /\ orders[cancel[c].order_id].status = SUBMITTED

(***************************************************************************)
(* Claims about the checks submit_order makes before it creates an order   *)
(* (SpecRisk).                                                             *)
(***************************************************************************)
\* a step in which submit_order is called by submit[r]
SubmitCalled(r) == submit[r].pc = "idle" /\ submit'[r].pc # "idle"

\* the call was refused: failure result, no order, nothing placed
RefusedCall(r) ==
    /\ submit'[r].pc = "done"
    /\ ~submit'[r].result.success
    /\ orders' = orders
    /\ placed' = placed

\* the entry price of a request is its price, or the market price
EntryKnown(req, tick) == req.price # NoPrice \/ tick # TickerError
EntryPrice(req, tick) == IF req.price # NoPrice THEN req.price ELSE tick

\* the three risk limits of the claim, on the table the call finds
OverLimits(req, tick, ords) ==
    \/ Cardinality({ id \in DOMAIN ords :
                       ords[id].symbol = req.symbol /\ ords[id].status \in ActiveStatuses })
          >= max_orders_per_symbol
    \/ /\ EntryKnown(req, tick)
       /\ \/ req.quantity * EntryPrice(req, tick) > max_position_size
          \/ req.quantity * EntryPrice(req, tick) * PctDen > PctNum * account_balance

\* C4: a submit_order call whose request is over one of the risk limits
\* returns success=False with a reason, adds no order and places nothing.
C4_RiskFailureRefused ==
    [][\A r \in Reqs :
          (SubmitCalled(r) /\ OverLimits(submit'[r].req, submit'[r].current_price, orders))
          => /\ RefusedCall(r)
             /\ submit'[r].result.message =
                   (IF submit'[r].current_price = TickerError THEN "error" ELSE "validation")]_vars

\* C4 witness: a call refused for a position value over max_position_size
\* and within the percentage limit, the order limit not being reached.
C4_Witness ==
    \E r \in Reqs :
        /\ submit[r].pc = "done"
        /\ submit[r].result.message = "validation"
        /\ P(r) \notin DOMAIN orders
        /\ P(r) \notin placed
        /\ orders = << >>
        /\ submit[r].current_price # TickerError
        /\ LET value == submit[r].req.quantity * EntryPrice(submit[r].req, submit[r].current_price)
           IN value > max_position_size /\ value * PctDen <= PctNum * account_balance

\* the stop-loss is on the wrong side of the entry price
WrongSide(req, tick) ==
    /\ req.stop_loss_price # NoPrice
    /\ EntryKnown(req, tick)
    /\ IF req.side = "BUY" THEN req.stop_loss_price >= EntryPrice(req, tick)
                           ELSE req.stop_loss_price <= EntryPrice(req, tick)

\* C6: no order exists for a request whose stop-loss is on the wrong side
\* of its entry price, the entry price being the request's price or, without
\* one, the market price.
C6_WrongSideStopLossRefused ==
    \A r \in Reqs :
        (submit[r].pc # "idle" /\ WrongSide(submit[r].req, submit[r].current_price))
        => /\ P(r) \notin DOMAIN orders
           /\ submit[r].pc = "done"
           /\ ~submit[r].result.success

Quiescent ==
    /\ \A r \in Reqs : submit[r].pc \in {"idle", "done"}
    /\ \A c \in Cancels : cancel[c].pc \in {"idle", "done"}

EventsFor(id) == { e \in published : e[2] = id }

\* C11: every status transition of an order (creation in PENDING, PENDING to
\* SUBMITTED, PENDING to REJECTED, any transition to CANCELLED) is followed
\* by an event published for that order: once the calls have returned, an
\* order of the table has an event, and a SUBMITTED, CANCELLED order has the
\* event of that transition.
C11_TransitionsPublished ==
    Quiescent =>
        \A id \in DOMAIN orders :
            /\ EventsFor(id) # {}
            /\ orders[id].status = SUBMITTED => <<"order_submitted", id>> \in published
            /\ orders[id].status = CANCELLED => <<"order_cancelled", id>> \in published

(***************************************************************************)
(* Claims about the children of an order (Spec).                           *)
(***************************************************************************)
\* submit_order of request r returned success
Succeeded(r) == submit[r].pc = "done" /\ submit[r].result.success

PricesGiven(req) ==
    (IF req.stop_loss_price # NoPrice THEN 1 ELSE 0)
    + (IF req.take_profit_price # NoPrice THEN 1 ELSE 0)

\* a child order as lines 495-506 and 520-531 build it
LinkedChild(k, id) ==
    /\ k \in DOMAIN orders
    /\ orders[k].side = OppositeSide(orders[id].side)
    /\ orders[k].quantity = orders[id].quantity
    /\ orders[k].parent_order_id = id

\* C12 as stated: after a successful submit_order of a request with a
\* stop-loss and/or a take-profit price, the parent records one child for
\* each price given, and each child has the opposite side, the same
\* quantity and the parent's id as parent_order_id.
C12_OneChildPerPriceGiven ==
    \A r \in Reqs :
        Succeeded(r) =>
            LET o == orders[P(r)]
                req == submit[r].req
            IN /\ Len(o.child_orders) = PricesGiven(req)
               /\ req.stop_loss_price # NoPrice =>
                     o.stop_loss_order_id \in Recorded(P(r)) /\ LinkedChild(o.stop_loss_order_id, P(r))
               /\ req.take_profit_price # NoPrice =>
                     o.take_profit_order_id \in Recorded(P(r)) /\ LinkedChild(o.take_profit_order_id, P(r))

\* C12 amended: after a successful submit_order the parent records exactly
\* the children whose own submission succeeded, at most one stop-loss child
\* and one take-profit child and none for a price that was not given; every
\* recorded child has the opposite side, the same quantity and the parent's
\* id; a child that was refused before the exchange is not in the table, one
\* the exchange refused is in the table and not recorded.
C12_RecordedChildrenLinked ==
    \A r \in Reqs :
        Succeeded(r) =>
            LET o == orders[P(r)]
                req == submit[r].req
                ids == {o.stop_loss_order_id, o.take_profit_order_id} \ {NoOrder}
            IN /\ Recorded(P(r)) = ids
               /\ Len(o.child_orders) = Cardinality(ids)
               /\ o.stop_loss_order_id \in {NoOrder, SL(r)}
               /\ o.take_profit_order_id \in {NoOrder, TP(r)}
               /\ o.stop_loss_order_id # NoOrder => req.stop_loss_price # NoPrice
               /\ o.take_profit_order_id # NoOrder => req.take_profit_price # NoPrice
               /\ \A k \in ids : LinkedChild(k, P(r))
               /\ \A k \in ChildrenOf(P(r)) : k \in ids <=> k \notin place_failed

\* C12 witness: a successful submit_order whose parent records a stop-loss
\* child and a take-profit child.
C12_Witness ==
    \E r \in Reqs :
        /\ Succeeded(r)
        /\ orders[P(r)].stop_loss_order_id = SL(r)
        /\ orders[P(r)].take_profit_order_id = TP(r)
        /\ orders[P(r)].child_orders = <<SL(r), TP(r)>>

\* C13: every order of the table has filled_quantity + remaining_quantity
\* equal to its quantity, after every operation of the manager.
C13_QuantityConserved ==
    \A id \in DOMAIN orders :
        orders[id].filled_quantity + orders[id].remaining_quantity = orders[id].quantity

\* C13 witness: orders that went through submission, acknowledgement and
\* cancellation, with a quantity to account for.
C13_Witness ==
    /\ \E id \in DOMAIN orders : orders[id].status = CANCELLED /\ orders[id].remaining_quantity > 0
    /\ \E id \in DOMAIN orders : orders[id].status = SUBMITTED /\ orders[id].remaining_quantity > 0
    /\ \E id \in DOMAIN orders : orders[id].status = REJECTED /\ orders[id].remaining_quantity > 0

(***************************************************************************)
(* Claims about calculate_position_size (SpecSizer).                       *)
(***************************************************************************)
\* the per-unit risk of the last call
SizingRisk ==
    RiskPerUnit(sizing.entry_price, sizing.stop_loss_price, sizing.stop_loss_percentage)

\* min(raw, max_position_size / entry, equity * max_position_percentage / entry)
\* with raw = equity * risk_percentage / per-unit risk
StatedQuantity ==
    LET raw == RatDiv(RatMul(RatOf(sizing.account_balance), sizing.risk_percentage), SizingRisk)
        by_size == RatDiv(RatOf(max_position_size), RatOf(sizing.entry_price))
        by_pct == RatDiv(RatMul(RatOf(sizing.account_balance), <<PctNum, PctDen>>),
                         RatOf(sizing.entry_price))
    IN RatMin(raw, RatMin(by_size, by_pct))

\* equity=10000, risk_percentage=0.02, entry=50000, stop_loss=49000
SizingExample ==
    /\ sizing.account_balance = 10000
    /\ sizing.risk_percentage = Rat(2, 100)
    /\ sizing.entry_price = 50000
    /\ sizing.stop_loss_price = 49000

C15_ZeroRiskRecommendsZero ==
    (sizing.outcome # "none" /\ SizingRisk = Zero)
        => sizing.outcome = "returned" /\ sizing.recommended_quantity = Zero

(***************************************************************************)
(* Claims about the ring buffer (SpecBuffer).                              *)
(***************************************************************************)
Min(a, b) == IF a < b THEN a ELSE b

\* the last n records of a sequence, oldest first
LastN(seq, n) == SubSeq(seq, Len(seq) - n + 1, Len(seq))

\* C16: after any sequence of appends the buffer holds min(number of
\* appends, capacity) records, the most recently appended ones in insertion
\* order.
C16_BufferHoldsMostRecent ==
    /\ Len(buffer) = Min(Len(appended), maxsize)
    /\ buffer = LastN(appended, Min(Len(appended), maxsize))

\* C16 witness: more records were appended than the buffer holds, and the
\* record evicted differs from the ones kept.
C16_Witness ==
    /\ Len(appended) > maxsize + 1
    /\ Len(buffer) = maxsize
    /\ appended[1] # buffer[1]

\* C17: get_recent(n) returns the last min(n, len) records of the buffer,
\* oldest first, so never more than n records and none for n = 0.
C17_RecentIsLastN ==
    reader_list.kind = "get_recent" =>
        /\ reader_list.items
              = LastN(reader_list.at_call, Min(reader_list.count, Len(reader_list.at_call)))
        /\ Len(reader_list.items) <= reader_list.count

\* C18: what a reader got from get_recent, get_all or get_symbol_stats is
\* not changed by the appends and statistics updates that follow.
C18_ReaderHoldsCopy ==
    /\ reader_list.kind # "none" => ListView = reader_list.items
    /\ reader_stats.kind # "none" => StatsView = reader_stats.value

\* C18 witness: the writer went on after the reader got a list and a
\* statistics snapshot.
C18_Witness ==
    /\ reader_list.kind = "get_all"
    /\ reader_stats.kind = "get_symbol_stats"
    /\ buffer # reader_list.at_call
    /\ buffer # reader_list.items
    /\ symbol_stats # reader_stats.value

(***************************************************************************)
(* Claims about the event history (SpecBus).                               *)
(***************************************************************************)
\* C19: the retained history never holds more events than the bound, in
\* total and so for every event kind, and it is the most recent events in
\* publish order: the oldest retained event is the one evicted.
C19_HistoryBounded ==
    /\ Len(event_history) <= max_history
    /\ \A t \in EventTypes : Len(OfType(event_history, t)) <= max_history
    /\ event_history = LastN(all_events, Min(Len(all_events), max_history))

\* C19 witness: more events were published than the history retains.
C19_Witness ==
    /\ Len(all_events) > max_history + 1
    /\ Len(event_history) = max_history
    /\ event_history[1][2] = Len(all_events) - max_history + 1

\* C20: get_event_history(kind, limit) returns the most recent min(limit,
\* number of retained events of that kind) events of that kind in publish
\* order, and without a kind the most recent min(limit, retained) events.
C20_HistoryIsMostRecent ==
    history_result.kind = "get_event_history" =>
        LET retained == IF history_result.event_type = NoEventType
                        THEN history_result.at_call
                        ELSE OfType(history_result.at_call, history_result.event_type)
        IN history_result.events = LastN(retained, Min(history_result.limit, Len(retained)))

(***************************************************************************)
(* Claims about the subscribers of the event bus (SpecDispatch).           *)
(***************************************************************************)
\* the handlers a log of invocations names, in order
HandlersOf(log) == [i \in 1 .. Len(log) |-> log[i][1]]

\* the invocations of a log made with the given event
CallsWith(log, event) == SelectSeq(log, LAMBDA d : d[2] = event)

\* what comes after the first n elements of a sequence
After(seq, n) == SubSeq(seq, n + 1, Len(seq))

\* the numbers of the events of one type the handler was called with, in
\* the order of the calls (an event's number is its place in publish order)
Received(handler, event_type) ==
    LET calls == SelectSeq(deliveries, LAMBDA d : d[1] = handler /\ Kind(d[2]) = event_type)
    IN [i \in 1 .. Len(calls) |-> calls[i][2][2]]

InPublishOrder(numbers) ==
    \A i, j \in 1 .. Len(numbers) : i < j => numbers[i] <= numbers[j]

\* C21: publish invokes every synchronous subscriber registered (and alive)
\* for the event's type when publish is called, once per registration and
\* in subscription order, before it returns; a subscriber that raises does
\* not keep the later subscribers from being invoked, and publish runs to
\* its last line (it creates the dispatch task of the event) instead of
\* passing the exception on.  This holds for the events a handler publishes
\* during the call as well.
C21_SyncSubscribersInvokedInOrder ==
    [][\A event_type \in EventTypes :
          PublishDispatch(event_type) =>
             \A event \in {all_events'[n] : n \in (Len(all_events) + 1) .. Len(all_events')} :
                /\ HandlersOf(CallsWith(After(deliveries', Len(deliveries)), event))
                      = Live(subscribers[event_type])
                /\ \E t \in (Len(dispatch_tasks) + 1) .. Len(dispatch_tasks') :
                      dispatch_tasks'[t].event = event]_vars

\* a subscriber that raises was invoked, and a subscriber after it was
\* invoked with the same event
C21_Witness ==
    \E i, j \in 1 .. Len(deliveries) :
       /\ i < j
       /\ deliveries[i][1] = "failing"
       /\ deliveries[j][1] # "failing"
       /\ deliveries[j][2] = deliveries[i][2]

\* C22: every synchronous subscriber receives the events of one type in the
\* order in which they were published, also when a subscriber publishes an
\* event of that type from inside its handler.
C22_SyncDeliveryInPublishOrder ==
    \A handler \in SyncHandlers, event_type \in EventTypes :
       InPublishOrder(Received(handler, event_type))

\* C23: every asynchronous subscriber receives the events of one type in
\* the order in which they were published, however the dispatch tasks
\* interleave and however long the other subscribers take.
C23_AsyncDeliveryInPublishOrder ==
    \A handler \in AsyncHandlers, event_type \in EventTypes :
       InPublishOrder(Received(handler, event_type))

\* C24: the asynchronous subscribers of one event run concurrently: while a
\* subscriber has not finished with an event, no other (live) subscriber of
\* that event is still waiting to be invoked with it.
C24_AsyncSubscribersDoNotWait ==
    \A t \in DOMAIN dispatch_tasks :
       dispatch_tasks[t].pc = "awaiting" =>
          \A i \in 1 .. Len(dispatch_tasks[t].refs) :
             i > dispatch_tasks[t].idx =>
                \/ dispatch_tasks[t].refs[i] \in collected
                \/ dispatch_tasks[t].refs[i] = dispatch_tasks[t].refs[dispatch_tasks[t].idx]

\* the sequence without its i-th element
RemoveAt(seq, i) == SubSeq(seq, 1, i - 1) \o After(seq, i)

\* `after` is `before` without one registration of the handler
OneRemoved(before, after, handler) ==
    \E i \in 1 .. Len(before) : before[i] = handler /\ after = RemoveAt(before, i)

Registered(refs, handler) == \E i \in 1 .. Len(refs) : refs[i] = handler

\* C25: unsubscribe(event_type, handler) removes exactly one registration of
\* the handler for that event type, if there is one; every other
\* registration (other handlers, other event types, a second registration
\* of the same handler for the same type) stays where it is.
C25_UnsubscribeRemovesOneRegistration ==
    [][\A event_type \in EventTypes, handler \in Handlers :
          Unsubscribe(event_type, handler) =>
             /\ \A other \in EventTypes \ {event_type} :
                   /\ subscribers'[other] = subscribers[other]
                   /\ async_subscribers'[other] = async_subscribers[other]
             /\ \/ /\ ~ Registered(subscribers[event_type], handler)
                   /\ ~ Registered(async_subscribers[event_type], handler)
                   /\ subscribers'[event_type] = subscribers[event_type]
                   /\ async_subscribers'[event_type] = async_subscribers[event_type]
                \/ /\ OneRemoved(subscribers[event_type], subscribers'[event_type], handler)
                   /\ async_subscribers'[event_type] = async_subscribers[event_type]
                \/ /\ OneRemoved(async_subscribers[event_type],
                                 async_subscribers'[event_type], handler)
                   /\ subscribers'[event_type] = subscribers[event_type]]_vars

(***************************************************************************)
(* Claims about the stream managers (SpecStreams).                         *)
(***************************************************************************)
\* the tasks of a stream that have not ended and are not being cancelled
ActiveTasks(stream) ==
    {t \in DOMAIN stream_tasks : stream_tasks[t].stream = stream /\ Active(t)}

\* the task gave up after max_reconnect_attempts failed attempts in a row
Exhausted(t) ==
    /\ stream_tasks[t].pc = "finished"
    /\ stream_tasks[t].reconnect_count = max_reconnect_attempts

\* C26: whatever subscribe calls were made for a stream, at most one task
\* supervises it, and that task is the one the task registry holds for it.
C26_OneTrackedTaskPerStream ==
    \A stream \in Streams :
       /\ Cardinality(ActiveTasks(stream)) <= 1
       /\ \A t \in ActiveTasks(stream) : tasks[stream] = t

\* C27: once unsubscribe has returned for a symbol (and until the symbol is
\* subscribed again) no task of a stream of that symbol is active, no
\* websocket of such a stream is open, and the connection table, the task
\* registry and the subscription bookkeeping hold nothing for it.
C27_UnsubscribedStreamIsGone ==
    \A symbol \in unsubscribed :
       /\ symbol \notin subscribed_symbols
       /\ \A sub \in subscriptions : sub[1] # symbol
       /\ \A stream \in Streams :
             stream[1] = symbol =>
                /\ ActiveTasks(stream) = {}
                /\ connections[stream] = NoStreamTask
                /\ tasks[stream] = NoStreamTask
                /\ \A t \in DOMAIN stream_tasks :
                      stream_tasks[t].stream = stream => stream_tasks[t].socket # "open"

\* C28: a task never makes more than max_reconnect_attempts connection
\* attempts in a row without a success; a task that gave up after that many
\* failures does nothing further; and a task created by a later subscribe
\* starts with its counter at zero.
C28_AttemptsBounded ==
    /\ [](\A t \in DOMAIN stream_tasks :
             /\ stream_tasks[t].attempts <= max_reconnect_attempts
             /\ stream_tasks[t].pc = "created" =>
                   stream_tasks[t].reconnect_count = 0 /\ stream_tasks[t].attempts = 0)
    /\ [][\A t \in DOMAIN stream_tasks :
             Exhausted(t) => stream_tasks'[t] = stream_tasks[t]]_vars

\* a task gave up after max_reconnect_attempts failures, and a task created
\* later for the same stream is at its first attempt
C28_Witness ==
    \E t, u \in DOMAIN stream_tasks :
       /\ t < u
       /\ stream_tasks[u].stream = stream_tasks[t].stream
       /\ Exhausted(t)
       /\ stream_tasks[t].attempts = max_reconnect_attempts
       /\ stream_tasks[u].pc = "connecting"
       /\ stream_tasks[u].attempts = 1

\* C29: a task that gave up after max_reconnect_attempts failed attempts
\* has published a system event for its stream.
C29_ExhaustionPublished ==
    \A t \in DOMAIN stream_tasks :
       Exhausted(t) => <<"system_event", stream_tasks[t].stream>> \in stream_events

\* C30: once stop() has returned (and until the manager is started again)
\* no websocket of any task is open, whatever the task was doing when stop
\* ran.
C30_NothingOpenAfterStop ==
    stopped => \A t \in DOMAIN stream_tasks : stream_tasks[t].socket # "open"

\* ------------------------------------------------------------------
\* Claims about the cancellation cascade under exchange refusals
\* ------------------------------------------------------------------

\* C36: at the moment cancel_order(parent) returns success, every child
\* order id recorded on the parent is in a status other than PENDING,
\* SUBMITTED and PARTIALLY_FILLED, also when the exchange refused the
\* cancellation of a child.
C36_RecordedChildrenInactiveOnReturn ==
    [][\A c \in Cancels :
          ( /\ cancel[c].pc # "done"
            /\ cancel'[c].pc = "done"
            /\ cancel'[c].result.success )
          => LET id == cancel'[c].order_id
             IN \A i \in 1 .. Len(orders'[id].child_orders) :
                   LET k == orders'[id].child_orders[i]
                   IN k \in DOMAIN orders' => orders'[k].status \notin ActiveStatuses]_vars

\* ------------------------------------------------------------------
\* Claims about unsubscribing one symbol among several
\* ------------------------------------------------------------------

\* what either manager keeps for the symbols other than the given one is
\* the same before and after the step: their tasks, their websockets and
\* their entries in connections, tasks, subscriptions, subscribed_symbols
OtherSymbolsUntouched(symbol) ==
    /\ \A stream \in Streams :
          stream[1] # symbol =>
              /\ connections'[stream] = connections[stream]
              /\ tasks'[stream] = tasks[stream]
    /\ \A t \in DOMAIN stream_tasks :
          stream_tasks[t].stream[1] # symbol => stream_tasks'[t] = stream_tasks[t]
    /\ {sub \in subscriptions' : sub[1] # symbol} = {sub \in subscriptions : sub[1] # symbol}
    /\ subscribed_symbols' \ {symbol} = subscribed_symbols \ {symbol}

\* C38: unsubscribing one symbol leaves the tasks, the connections and the
\* bookkeeping of every other symbol as they were, also of a symbol whose
\* name contains the unsubscribed symbol.
C38_UnsubscribeLeavesOtherSymbols ==
    [][\A symbol \in StreamSymbols :
          ( \/ UnsubscribeSymbol(symbol)
            \/ \E stream_type \in StreamTypes \cup {NoStreamType} :
                  BinanceUnsubscribe(symbol, stream_type) )
          => OtherSymbolsUntouched(symbol)]_vars

\* ------------------------------------------------------------------
\* Claims about the reconnect delay and about messages that fail
\* ------------------------------------------------------------------

\* C34: the time a task sleeps before its k-th consecutive reconnect
\* attempt is reconnect_delay * k, k being the number of consecutive
\* failures counted so far.
C34_BackoffDelayLinear ==
    \A t \in DOMAIN stream_tasks :
        stream_tasks[t].pc = "backoff"
        => stream_tasks[t].delay = reconnect_delay * stream_tasks[t].reconnect_count

\* C35: a message that json.loads refuses, or on which the handler raises,
\* is skipped: the task stays connected with its websocket open and
\* registered, its reconnect counter is unchanged, and a ticker update that
\* arrives afterwards on the same connection is handled and published.
C35_BadMessageSkipped ==
    [][/\ \A t \in DOMAIN stream_tasks, message \in Messages \ {"ticker"} :
             (is_running /\ ReceiveMessage(t, message))
             => /\ stream_tasks'[t] = [stream_tasks[t] EXCEPT !.skipped = @ + 1]
                /\ stream_tasks'[t].pc = "connected"
                /\ stream_tasks'[t].socket = "open"
                /\ stream_tasks'[t].reconnect_count = stream_tasks[t].reconnect_count
                /\ connections' = connections
                /\ stream_events' = stream_events
       /\ \A t \in DOMAIN stream_tasks :
             (is_running /\ stream_tasks[t].skipped > 0 /\ ReceiveMessage(t, "ticker"))
             => /\ <<"market_data", stream_tasks[t].stream>> \in stream_events'
                /\ stream_tasks'[t] = stream_tasks[t]
                /\ connections' = connections]_vars

\* C35 witness: a running task that skipped a message, is still connected
\* with the counter at 0, and whose stream has published an update.
C35_Witness ==
    \E t \in DOMAIN stream_tasks :
        /\ is_running
        /\ stream_tasks[t].skipped > 0
        /\ Runs(t, "connected")
        /\ stream_tasks[t].socket = "open"
        /\ stream_tasks[t].reconnect_count = 0
        /\ connections[stream_tasks[t].stream] = t
        /\ <<"market_data", stream_tasks[t].stream>> \in stream_events

\* ------------------------------------------------------------------
\* Claims about the portfolio
\* ------------------------------------------------------------------

\* the places of the closed positions
ClosedPositions == {i \in DOMAIN positions : positions[i].status = "closed"}

\* the sum of the pnl of the closed positions among the first n
RECURSIVE RealizedPnl(_)
RealizedPnl(n) ==
    IF n = 0 THEN Zero
    ELSE IF n \in ClosedPositions THEN RatAdd(RealizedPnl(n - 1), positions[n].pnl)
         ELSE RealizedPnl(n - 1)

\* C39: after any sequence of add_position and close_position calls on a
\* Portfolio, current_balance is initial_balance plus the pnl of the closed
\* positions, trade_history holds one record for each closed position and
\* no other, and a closed position is not closed again and not reopened.
C39_BalanceAndHistoryMatchClosedPositions ==
    /\ [](/\ current_balance = RatAdd(RatOf(initial_balance), RealizedPnl(Len(positions)))
          /\ Len(trade_history) = Cardinality(ClosedPositions)
          /\ \A i \in ClosedPositions :
                \E k \in DOMAIN trade_history : trade_history[k] = positions[i]
          /\ \A k \in DOMAIN trade_history :
                trade_history[k].entry_time \in ClosedPositions)
    /\ [][\A i \in ClosedPositions : positions'[i] = positions[i]]_vars

\* C39 witness: a symbol closed twice, once at a loss and once at a profit,
\* with two records in the history, and a third position still open.
C39_Witness ==
    \E i, j \in ClosedPositions :
        /\ i < j
        /\ positions[i].symbol = positions[j].symbol
        /\ RatLess(positions[i].pnl, Zero)
        /\ RatLess(Zero, positions[j].pnl)
        /\ Len(trade_history) = 2
        /\ \E k \in DOMAIN positions : IsOpen(positions[k])

\* ------------------------------------------------------------------
\* Claims about the trading service and its position monitor
\* ------------------------------------------------------------------

\* the places of the open positions of a symbol
OpenPositionsOf(symbol) ==
    {i \in DOMAIN positions : IsOpen(positions[i]) /\ positions[i].symbol = symbol}

\* C40: whatever execute_position and close_position calls the trading
\* service has served, its portfolio holds at most one open position of
\* each symbol.
C40_OneOpenPositionPerSymbol ==
    \A symbol \in TradeSymbols : Cardinality(OpenPositionsOf(symbol)) <= 1

\* C40 witness: a symbol that was opened, closed and opened again, for which
\* one more execute_position with a buy or sell signal answers "exists".
C40_Witness ==
    \E symbol \in TradeSymbols :
        /\ is_initialized
        /\ Len(positions) = 2
        /\ positions[1].symbol = symbol /\ positions[1].status = "closed"
        /\ positions[2].symbol = symbol /\ positions[2].status = "open"
        /\ \A signal \in Signals, position_size \in PositionSizes :
              signal.action # "hold"
              => ExecuteStatus(PortfolioNow, symbol, signal, position_size, FALSE) = "exists"

\* the start_monitoring coroutines that go on sweeping: those asleep while
\* is_monitoring is set
MonitoringLoops ==
    {t \in DOMAIN monitor_loops : is_monitoring /\ monitor_loops[t].pc = "sleeping"}

\* C37: at most one position-monitoring loop is active at any time, also
\* after stop_monitoring and start_monitoring were called while the old
\* loop was asleep.
C37_OneMonitoringLoop == Cardinality(MonitoringLoops) <= 1

\* a step in which an initialized service makes one sweep with the given
\* failing ticker requests
SweepStep(monitor_fails, close_fails) ==
    /\ is_initialized
    /\ \/ ScheduledMonitor(monitor_fails, close_fails)
       \/ ~ is_monitoring /\ StartMonitoring(monitor_fails, close_fails)
       \/ \E t \in MonitorLoopIds : is_monitoring /\ MonitorWakes(t, monitor_fails, close_fails)

\* the exit rule as the specification words it, on the stop and target a
\* position has
ExitRuleHolds(position, current) ==
    IF position.side = "buy"
    THEN \/ position.stop_loss # NoPrice /\ current <= position.stop_loss
         \/ position.take_profit # NoPrice /\ current >= position.take_profit
    ELSE \/ position.stop_loss # NoPrice /\ current >= position.stop_loss
         \/ position.take_profit # NoPrice /\ current <= position.take_profit

\* C33: in one sweep, the failure of the ticker request of one position
\* only skips that position: every open position whose own price can be
\* obtained is re-priced at that price and, when its exit rule holds,
\* closed in that same sweep.
C33_OtherPositionsStillEvaluated ==
    [][\A fails \in TickerFailures :
          SweepStep(fails[1], fails[2])
          => \A i \in get_open_positions(PortfolioNow) :
                LET symbol == positions[i].symbol
                    repriced == update_pnl(positions[i], market[symbol])
                IN symbol \notin (fails[1] \cup fails[2])
                   => IF ExitRuleHolds(positions[i], market[symbol])
                      THEN positions'[i].status = "closed"
                      ELSE positions'[i] = repriced]_vars

\* C32: in a sweep, an open position whose price can be obtained is closed
\* if and only if its exit rule holds at the current price: for a buy
\* position current <= stop_loss or current >= take_profit, for a sell
\* position current >= stop_loss or current <= take_profit, a missing stop
\* or target never triggering.
C32_ClosedIffExitRuleHolds ==
    [][\A fails \in TickerFailures :
          SweepStep(fails[1], fails[2])
          => \A i \in get_open_positions(PortfolioNow) :
                positions[i].symbol \notin (fails[1] \cup fails[2])
                => ( positions'[i].status = "closed"
                     <=> ExitRuleHolds(positions[i], market[positions[i].symbol]) )]_vars

\* the records trade_history holds for the position at place i
HistoryOf(i) == {k \in DOMAIN trade_history : trade_history[k].entry_time = i}

\* C31: for a position whose exit condition stays true from sweep to sweep
\* (a buy position with stop_loss 100 at the prices 101, 99, 99, 99), the
\* sweeps of the scheduler and of the monitoring loops together ask for
\* exactly one close: never more than one, and one as soon as a sweep whose
\* ticker requests answer finds the condition true.
C31_ExactlyOneCloseSubmitted ==
    /\ [](\A i \in DOMAIN positions :
             /\ exit_submissions[i] <= 1
             /\ exit_submissions[i] = 1 => positions[i].status = "closed"
             /\ Cardinality(HistoryOf(i)) <= 1)
    /\ [][SweepStep({}, {})
          => \A i \in get_open_positions(PortfolioNow) :
                ExitRuleHolds(positions[i], market[positions[i].symbol])
                => /\ exit_submissions'[i] = 1
                   /\ positions'[i].status = "closed"
                   /\ Cardinality(HistoryOf(i)') = 1]_vars

\* C31 witness: a buy position with a stop that a sweep closed, and a later
\* position of the same symbol that a later sweep re-priced at a price at
\* which the stop of the first still triggers.
C31_Witness ==
    /\ Len(positions) = 2
    /\ positions[1].symbol = positions[2].symbol
    /\ positions[1].side = "buy" /\ positions[1].stop_loss = 100
    /\ exit_submissions[1] = 1
    /\ positions[1].status = "closed"
    /\ Cardinality(HistoryOf(1)) = 1
    /\ positions[2].status = "open"
    /\ positions[2].pnl # Zero
    /\ positions[2] = update_pnl(positions[2], market[positions[2].symbol])
    /\ ExitRuleHolds(positions[1], market[positions[1].symbol])
    /\ Cardinality(MonitoringLoops) = 2

====
